---------------------------- MODULE Spec2Model ----------------------------
(***************************************************************************)
(* Model of package mqwrapper of Hurricanezwf/pkg: the envelope codec      *)
(* (msgEncoderV1.Encode / Decode, Compress / Decompress) and the session   *)
(* wrapper MQWrapper (Open, Close, RegistActionHandler, Post,              *)
(* consumeFromLoop, handleMsg).                                            *)
(*                                                                         *)
(* Byte slices are kept as run sequences: a []byte is a sequence of chunks *)
(* [k, b, o, n, src], each standing for n consecutive bytes, so that the   *)
(* program's real lengths (51200, 5242880) are reachable.                  *)
(*   k = "rep": n copies of the byte b                                     *)
(*   k = "rnd": bytes o .. o+n-1 of the incompressible stream number b     *)
(*   k = "gz" : bytes o .. o+n-1 of the gzip stream that Compress makes    *)
(*              of the byte slice src                                      *)
(* 32-bit unsigned values are kept as two 16-bit halves [hi, lo], since    *)
(* 2^32 - 1 is more than the checker's integers hold.  The lengths of      *)
(* slices are Go ints of 64 bits; they are kept as [hi, lo] with lo below  *)
(* 2^16 and hi unbounded by 2^16, so that a slice of 4 GiB has a length.   *)
(***************************************************************************)
EXTENDS Integers, Sequences, FiniteSets, TLC

\* ------------------------------------------------------------------------
\* uint32 arithmetic (Go: uint32, wrapping)

W16 == 65535 + 1

U32(h, l) == [hi |-> h, lo |-> l]

\* uint32(n) for an int 0 <= n < 2^31
U32OfNat(n) == U32(n \div W16, n % W16)

\* uint32(a) for an int32 a: two's complement
U32OfInt32(a) ==
    IF a >= 0 THEN U32OfNat(a)
    ELSE LET m == a + 2147483647 + 1   \* a + 2^31, in 0 .. 2^31-1
         IN  U32((m \div W16) + 32768, m % W16)

\* int32(u) for a uint32 u: two's complement
Int32OfU32(u) ==
    IF u.hi < 32768 THEN u.hi * W16 + u.lo
    ELSE ((u.hi - 32768) * W16 + u.lo) - 2147483647 - 1

\* x + y on uint32, wrapping modulo 2^32
U32Add(x, y) ==
    LET l == x.lo + y.lo
        h == x.hi + y.hi + (l \div W16)
    IN  U32(h % W16, l % W16)

\* x > y on uint32
U32Gt(x, y) == x.hi > y.hi \/ (x.hi = y.hi /\ x.lo > y.lo)

\* a uint32 that is < 2^31, as an int
NatOfU32(u) == u.hi * W16 + u.lo

\* Go int (64 bits on the builds that can hold a slice of 4 GiB): the value
\* hi * 2^16 + lo
IntOfNat(n) == [hi |-> n \div W16, lo |-> n % W16]

IntAdd(x, y) ==
    LET l == x.lo + y.lo
    IN  [hi |-> x.hi + y.hi + (l \div W16), lo |-> l % W16]

\* x > y on int
IntGt(x, y) == x.hi > y.hi \/ (x.hi = y.hi /\ x.lo > y.lo)

\* uint32(x) for an int x >= 0: the low 32 bits
Uint32OfInt(x) == U32(x.hi % W16, x.lo)

\* binary.BigEndian.PutUint32: the four bytes of u, most significant first
PutUint32(u) == << u.hi \div 256, u.hi % 256, u.lo \div 256, u.lo % 256 >>

\* binary.BigEndian.Uint32: the uint32 of four bytes
Uint32(b0, b1, b2, b3) == U32(b0 * 256 + b1, b2 * 256 + b3)

\* ------------------------------------------------------------------------
\* []byte as a sequence of chunks

Chunk(kind, byte, off, cnt, source) ==
    [k |-> kind, b |-> byte, o |-> off, n |-> cnt, src |-> source]

Rep(byte, cnt) == Chunk("rep", byte, 0, cnt, << >>)
Rnd(id, cnt)   == Chunk("rnd", id, 0, cnt, << >>)

\* len(bs)
RECURSIVE BLen(_)
BLen(bs) == IF bs = << >> THEN 0 ELSE Head(bs).n + BLen(Tail(bs))

\* len(bs) as the Go int it is
RECURSIVE IntLen(_)
IntLen(bs) ==
    IF bs = << >> THEN IntOfNat(0)
    ELSE IntAdd(IntOfNat(Head(bs).n), IntLen(Tail(bs)))

\* the first 10 bytes gzip.Writer emits: ID1 ID2 CM FLG MTIME(4) XFL OS
GzipHeader == << 31, 139, 8, 0, 0, 0, 0, 0, 0, 255 >>

\* the byte at position p of chunk c
ChunkByte(c, p) ==
    CASE c.k = "rep" -> c.b
      [] c.k = "rnd" -> (c.b * 131 + (c.o + p) * 37 + 1) % 256
      [] c.k = "gz"  -> IF c.b = 0 /\ c.o + p < 10 THEN GzipHeader[c.o + p + 1] ELSE 0

\* bs[i], 0 <= i < len(bs)
RECURSIVE BAt(_, _)
BAt(bs, i) ==
    IF i < Head(bs).n THEN ChunkByte(Head(bs), i)
    ELSE BAt(Tail(bs), i - Head(bs).n)

\* whether chunk d continues chunk c, so that the two are one chunk
Joins(c, d) ==
    /\ c.k = d.k
    /\ CASE c.k = "rep" -> c.b = d.b
         [] c.k = "rnd" -> c.b = d.b /\ d.o = c.o + c.n
         [] c.k = "gz"  -> c.src = d.src /\ c.b = d.b /\ d.o = c.o + c.n

\* append chunk d to bs, keeping the run sequence in normal form
Push(bs, d) ==
    IF d.n = 0 THEN bs
    ELSE IF bs = << >> THEN << d >>
    ELSE LET c == bs[Len(bs)]
         IN  IF Joins(c, d)
             THEN [bs EXCEPT ![Len(bs)] = [c EXCEPT !.n = c.n + d.n]]
             ELSE Append(bs, d)

\* append(x, y...)
RECURSIVE BCat(_, _)
BCat(x, y) == IF y = << >> THEN x ELSE BCat(Push(x, Head(y)), Tail(y))

\* []byte of explicit bytes
RECURSIVE FromSeq(_)
FromSeq(s) ==
    IF s = << >> THEN << >>
    ELSE BCat(<< Rep(Head(s), 1) >>, FromSeq(Tail(s)))

\* the part of chunk c from position lo up to position hi (exclusive)
ChunkCut(c, lo, hi) ==
    [c EXCEPT !.o = IF c.k = "rep" THEN 0 ELSE c.o + lo, !.n = hi - lo]

Min(a, b) == IF a < b THEN a ELSE b
Max(a, b) == IF a > b THEN a ELSE b

\* bs[lo:hi] for 0 <= lo <= hi <= len(bs)
RECURSIVE BSlice(_, _, _)
BSlice(bs, lo, hi) ==
    IF bs = << >> \/ hi <= 0 THEN << >>
    ELSE LET c == Head(bs)
             a == Max(lo, 0)
             z == Min(hi, c.n)
             rest == BSlice(Tail(bs), lo - c.n, hi - c.n)
         IN  IF a < z THEN BCat(<< ChunkCut(c, a, z) >>, rest) ELSE rest

\* ------------------------------------------------------------------------
\* Compress / Decompress (compress/gzip, level 5)

\* length of the DEFLATE stream of one chunk: a run of one byte shrinks to a
\* handful of match codes, incompressible bytes are kept with block overhead
DeflateLen(c) ==
    IF c.k = "rep" THEN IntOfNat(1 + (c.n \div 1024))
    ELSE IntAdd(IntOfNat(c.n), IntOfNat(5 * ((c.n \div 65535) + 1)))

RECURSIVE DeflateSum(_)
DeflateSum(bs) ==
    IF bs = << >> THEN IntOfNat(0)
    ELSE IntAdd(DeflateLen(Head(bs)), DeflateSum(Tail(bs)))

\* length of the gzip stream of data: header, DEFLATE stream with its end
\* mark, CRC-32 and ISIZE trailer
GzLen(data) == IntAdd(IntOfNat(10 + 2 + 8), DeflateSum(data))

\* a chunk holds at most 2^30 bytes of a gzip stream: chunk number b of the
\* stream holds its bytes b * 2^30 + o .. b * 2^30 + o + n - 1
PieceLen == 16384 * W16

\* the gzip stream of data, whole
GzStream(data) ==
    LET q == GzLen(data).hi \div 16384
        r == (GzLen(data).hi % 16384) * W16 + GzLen(data).lo
    IN  [i \in 1..q |-> Chunk("gz", i - 1, 0, PieceLen, data)]
            \o (IF r > 0 THEN << Chunk("gz", q, 0, r, data) >> ELSE << >>)

\* Compress(data): gzip.NewWriterLevel(b, 5), Write, Close; it cannot fail
\* on a bytes.Buffer
Compress(data) == [err |-> "nil", out |-> GzStream(data)]

\* gzip.Reader over cs: the contents of the complete gzip members cs is made
\* of, or a failure when cs is anything else
RECURSIVE Gunzip(_)
Gunzip(cs) ==
    IF cs = << >> THEN [ok |-> TRUE, out |-> << >>]
    ELSE IF Head(cs).k # "gz" THEN [ok |-> FALSE, out |-> << >>]
    ELSE LET member == GzStream(Head(cs).src)
             n == Len(member)
         IN  IF Len(cs) >= n /\ SubSeq(cs, 1, n) = member
             THEN LET rest == Gunzip(SubSeq(cs, n + 1, Len(cs)))
                  IN  [ok |-> rest.ok, out |-> BCat(Head(cs).src, rest.out)]
             ELSE [ok |-> FALSE, out |-> << >>]

\* Decompress(compressed): gzip.NewReader and ioutil.ReadAll succeed on a
\* non-empty sequence of complete gzip members and on nothing else
Decompress(compressed) ==
    IF compressed # << >> /\ Gunzip(compressed).ok
    THEN [err |-> "nil", out |-> Gunzip(compressed).out]
    ELSE [err |-> "gzip", out |-> << >>]

\* ------------------------------------------------------------------------
\* msgEncoderV1

magicN == 34

maxSegmentLen == 5242880

\* a faulty NeedCompress: the threshold itself is compressed
NeedCompressAtThreshold(msgBody) == ~IntGt(IntOfNat(51200), IntLen(msgBody))

\* len(msgBody) > 51200
NeedCompress(msgBody) == IntGt(IntLen(msgBody), IntOfNat(51200))

\* segmentLen := 1 + 3 + 4 + 4 + len(msgBody)
SegmentLen(msgBody) == IntAdd(IntOfNat(1 + 3 + 4 + 4), IntLen(msgBody))

\* uint32(segmentLen) > e.maxSegmentLen
TooLong(segmentLen) == U32Gt(Uint32OfInt(segmentLen), U32OfNat(maxSegmentLen))

\* a faulty OptionByte: the compression flag is never set
OptionByteUnset(isCompressed) == 0

\* the header option byte
OptionByte(isCompressed) == IF isCompressed THEN 128 ELSE 0

\* the 12 header bytes written into buf
Header(actionKey, isCompressed, bodyLen) ==
    << magicN, OptionByte(isCompressed), 0, 0 >>
        \o PutUint32(U32OfInt32(actionKey))
        \o PutUint32(Uint32OfInt(bodyLen))

Encode(actionKey, msgBody) ==
    LET isCompressed == NeedCompress(msgBody)
        body == IF isCompressed THEN Compress(msgBody).out ELSE msgBody
        segmentLen == SegmentLen(body)
    IN  IF TooLong(segmentLen)
        THEN [err |-> "msg too long", buf |-> << >>]
        ELSE [err |-> "nil",
              buf |-> BCat(FromSeq(Header(actionKey, isCompressed, IntLen(body))), body)]

\* a faulty IsCompressedFlag: the lowest bit is tested
IsCompressedFlagLow(opt) == opt % 2 = 1

\* b[1]&0x80 > 0
IsCompressedFlag(opt) == (opt \div 128) % 2 = 1

\* bodyEnd := offset + msgBodyLen, on uint32
BodyEnd(offset, msgBodyLen) == U32Add(U32OfNat(offset), msgBodyLen)

\* bodyEnd > uint32(len(b))
BodyTooShort(bodyEnd, n) == U32Gt(bodyEnd, Uint32OfInt(n))

\* the slice expression b[lo:hi] is in range (it panics otherwise)
SliceInRange(lo, hi, n) == lo <= hi /\ ~IntGt(IntOfNat(hi), n)

DecodeErr(e) == [err |-> e, action |-> 0, msgBody |-> << >>]

Decode(b) ==
    IF TooLong(IntLen(b)) THEN DecodeErr("msg is too long")
    ELSE IF IntGt(IntOfNat(12), IntLen(b)) THEN DecodeErr("msg too short")
    ELSE IF BAt(b, 0) # magicN THEN DecodeErr("bad msg format, magicN didn't match")
    ELSE
      LET isCompressed == IsCompressedFlag(BAt(b, 1))
          action == Int32OfU32(Uint32(BAt(b, 4), BAt(b, 5), BAt(b, 6), BAt(b, 7)))
          msgBodyLen == Uint32(BAt(b, 8), BAt(b, 9), BAt(b, 10), BAt(b, 11))
          offset == 12
          bodyEnd == BodyEnd(offset, msgBodyLen)
      IN  IF BodyTooShort(bodyEnd, IntLen(b)) THEN DecodeErr("msg too short")
          ELSE IF ~SliceInRange(offset, NatOfU32(bodyEnd), IntLen(b))
          THEN DecodeErr("panic: slice bounds out of range")
          ELSE
            LET msgBody == BSlice(b, offset, NatOfU32(bodyEnd))
                d == Decompress(msgBody)
            IN  IF ~isCompressed
                THEN [err |-> "nil", action |-> action, msgBody |-> msgBody]
                ELSE IF d.err # "nil" THEN DecodeErr("Decompress msg body failed")
                ELSE [err |-> "nil", action |-> action, msgBody |-> d.out]

\* ------------------------------------------------------------------------
\* Bounds of the model

\* deliveries the transport places on the delivery channel
MaxDeliveries == 2

\* largest retry argument given to Post
MaxRetry == 2

\* payload lengths 0 .. MaxSmall are enumerated one by one
MaxSmall == 2

\* lengths within Slack of each length limit are enumerated
Slack == 1

\* ------------------------------------------------------------------------
\* State

VARIABLES
    ready,          \* conf.Ready is readable (the application closed it)
    id,             \* w.id, "" before Open
    conf,           \* w.conf, NilConf before Open
    m,              \* w.m: "nil", "open", "closed"
    producer,       \* w.producer: "nil", "set"
    consumer,       \* w.consumer: "nil", "set"
    delivery,       \* w.delivery: the deliveries buffered in the channel
    deliveryState,  \* w.delivery: "nil", "open", "closed"
    stopConsumeCh,  \* w.stopConsumeCh: "nil", "open", "closed"
    handlers,       \* w.handlers: action key -> handler
    encoder,        \* w.encoder: the MsgEncoder in use
    openRet,        \* what Open returned: "none" before it returns
    lpc,            \* consumeFromLoop: "none", "waitReady", "select", "done"
    tasks,          \* per delivery: the handleMsg goroutine and what it did
    ackLog,         \* the deliveries in the order d.Ack was called
    panicked,       \* "none", or the runtime panic that ended the process
    post,           \* the Post call in progress or last returned
    cpc, cin, cenc, cdec,  \* codec harness: step, input, Encode and Decode results
    reg,            \* registry harness: the last call and what it returned
    crypt,          \* cipher harness: the Encrypt call and the Decrypt of its result
    httpc,          \* HTTP client harness: the request sent and what send did with it
    closers,        \* where each goroutine calling Close concurrently stands in it
    mk              \* the makeKey call in progress: its loop, step by step

wvars == << id, conf, m, producer, consumer, deliveryState, stopConsumeCh, encoder,
           openRet >>
cvars == << cpc, cin, cenc, cdec, reg, crypt, httpc, closers, mk >>
vars == << ready, id, conf, m, producer, consumer, delivery, deliveryState,
           stopConsumeCh, handlers, openRet, lpc, tasks, ackLog, panicked,
           encoder, post, cpc, cin, cenc, cdec, reg, crypt, httpc, closers, mk >>

\* ------------------------------------------------------------------------
\* Config and ValidateConf

NilConf == [nil |-> TRUE]

Conf(rdy, url, ep, pex, pkind, pq, prk, ec, cex, ckind, cq, crk, warn) ==
    [nil |-> FALSE, Ready |-> rdy, MQUrl |-> url,
     EnableProducer |-> ep, ProducerExchange |-> pex, ProducerExchangeKind |-> pkind,
     ProducerQueue |-> pq, ProducerRouteKey |-> prk,
     EnableConsumer |-> ec, ConsumerExchange |-> cex, ConsumerExchangeKind |-> ckind,
     ConsumerQueue |-> cq, ConsumerRouteKey |-> crk,
     Warn |-> warn]

\* a configuration with every field set
FullConf(ep, ec, warn) ==
    Conf(TRUE, "amqp://mq", ep, "ex", "direct", "q", "rk", ec, "ex", "direct", "q", "rk", warn)

\* a faulty ValidateConf: the fields of a disabled role are checked too
ValidateConfAnyRole(c) ==
    IF ~c.Ready THEN "Ready flag in config is nil"
    ELSE IF c.MQUrl = "" THEN "Missing 'MQUrl'"
    ELSE IF c.ProducerExchange = "" THEN "Missing 'ProducerExchange'"
    ELSE IF c.ProducerQueue = "" THEN "Missing 'ProducerQueue'"
    ELSE IF c.ProducerRouteKey = "" THEN "Missing 'ProdicerRoutekey'"
    ELSE IF c.ProducerExchangeKind = "" THEN "Missing 'ProducerExchangeKind'"
    ELSE IF c.ConsumerExchange = "" THEN "Missin 'ConsumerExchange'"
    ELSE IF c.ConsumerQueue = "" THEN "Missing 'ConsumerQueue'"
    ELSE IF c.ConsumerRouteKey = "" THEN "Missing 'ConsumerRouteKey'"
    ELSE IF c.ConsumerExchangeKind = "" THEN "Missing 'ConsumerExchangeKind'"
    ELSE "nil"

ValidateConf(c) ==
    IF ~c.Ready THEN "Ready flag in config is nil"
    ELSE IF c.MQUrl = "" THEN "Missing 'MQUrl'"
    ELSE IF c.EnableProducer /\ c.ProducerExchange = "" THEN "Missing 'ProducerExchange'"
    ELSE IF c.EnableProducer /\ c.ProducerQueue = "" THEN "Missing 'ProducerQueue'"
    ELSE IF c.EnableProducer /\ c.ProducerRouteKey = "" THEN "Missing 'ProdicerRoutekey'"
    ELSE IF c.EnableProducer /\ c.ProducerExchangeKind = "" THEN "Missing 'ProducerExchangeKind'"
    ELSE IF c.EnableConsumer /\ c.ConsumerExchange = "" THEN "Missin 'ConsumerExchange'"
    ELSE IF c.EnableConsumer /\ c.ConsumerQueue = "" THEN "Missing 'ConsumerQueue'"
    ELSE IF c.EnableConsumer /\ c.ConsumerRouteKey = "" THEN "Missing 'ConsumerRouteKey'"
    ELSE IF c.EnableConsumer /\ c.ConsumerExchangeKind = "" THEN "Missing 'ConsumerExchangeKind'"
    ELSE "nil"

\* ------------------------------------------------------------------------
\* Open / Close

\* a faulty CloseM: the connection is left as it is
CloseMSkip(mq) == mq

\* w.m.Close() when w.m != nil
CloseM(mq) == IF mq = "nil" THEN "nil" ELSE "closed"

\* close(ch) of the Go runtime: closing a nil or a closed channel panics
ChanClose(ch) == IF ch = "open" THEN "closed" ELSE "panic"

\* a faulty CloseStop: the channel is closed without the select
CloseStopUnguarded(ch) == IF ch = "nil" THEN ch ELSE ChanClose(ch)

\* if w.stopConsumeCh != nil { select { case <-w.stopConsumeCh: default:
\* close(w.stopConsumeCh) } }
CloseStop(ch) ==
    IF ch = "nil" THEN ch
    ELSE IF ch = "closed" THEN ch
    ELSE ChanClose(ch)

\* the steps of Open at which the transport can fail, for configuration c
FailPoints(c) ==
    {"none", "connect"}
        \cup (IF c.EnableProducer THEN {"producer", "producerOpen"} ELSE {})
        \cup (IF c.EnableConsumer THEN {"consumer", "consumerOpen"} ELSE {})

\* the wrapper fields when Open reaches FINISH, before the Close on error:
\* verr is ValidateConf's result, fp the step at which the transport fails
OpenBody(c, verr, fp) ==
    LET failed == verr # "nil" \/ fp # "none"
        connected == verr = "nil" /\ fp # "connect"
        prodDone == connected /\ fp \notin {"producer", "producerOpen"}
        consMade == prodDone /\ c.EnableConsumer /\ fp # "consumer"
        consDone == consMade /\ fp # "consumerOpen"
    IN  [err |-> IF verr # "nil" THEN verr ELSE IF fp # "none" THEN fp ELSE "nil",
         m |-> IF connected THEN "open" ELSE "nil",
         producer |-> IF prodDone /\ c.EnableProducer THEN "set" ELSE "nil",
         deliveryState |-> IF consMade THEN "open" ELSE "nil",
         stopConsumeCh |-> IF consMade THEN "open" ELSE "nil",
         consumer |-> IF consDone THEN "set" ELSE "nil",
         lpc |-> IF consDone THEN "waitReady" ELSE "none"]

\* configurations that fail validation
BadConfigs ==
    { [FullConf(TRUE, TRUE, TRUE) EXCEPT !.Ready = FALSE],
      [FullConf(TRUE, TRUE, TRUE) EXCEPT !.MQUrl = ""],
      [FullConf(TRUE, TRUE, TRUE) EXCEPT !.ProducerQueue = ""],
      [FullConf(TRUE, TRUE, TRUE) EXCEPT !.ConsumerRouteKey = ""] }

\* the configurations the application passes to Open on the consuming side
ConsumerConfigs ==
    { FullConf(FALSE, ec, warn) : ec \in BOOLEAN, warn \in BOOLEAN } \cup BadConfigs

\* the configurations the application passes to Open on the producing side
ProducerConfigs ==
    { FullConf(ep, ec, warn) : ep \in BOOLEAN, ec \in BOOLEAN, warn \in BOOLEAN }
        \cup BadConfigs

\* the identifiers the application gives its wrapper
WrapperIds == {"w1"}

Open(wrapperId, c, fp) ==
    /\ panicked = "none"
    /\ openRet = "none"
    /\ fp \in FailPoints(c)
    /\ LET r == OpenBody(c, ValidateConf(c), fp)
       IN  /\ id' = wrapperId
           /\ conf' = c
           /\ m' = IF r.err # "nil" THEN CloseM(r.m) ELSE r.m
           /\ stopConsumeCh' = IF r.err # "nil" THEN CloseStop(r.stopConsumeCh)
                                                ELSE r.stopConsumeCh
           /\ producer' = r.producer
           /\ consumer' = r.consumer
           /\ deliveryState' = r.deliveryState
           /\ lpc' = r.lpc
           /\ openRet' = r.err
    /\ UNCHANGED << ready, delivery, handlers, encoder, tasks, ackLog, panicked, post,
                    cvars >>

Close ==
    /\ panicked = "none"
    /\ m' = CloseM(m)
    /\ IF CloseStop(stopConsumeCh) = "panic"
       THEN /\ panicked' = "close of closed channel"
            /\ UNCHANGED stopConsumeCh
       ELSE /\ stopConsumeCh' = CloseStop(stopConsumeCh)
            /\ UNCHANGED panicked
    /\ UNCHANGED << ready, id, conf, encoder, producer, consumer, delivery, deliveryState,
                    handlers, openRet, lpc, tasks, ackLog, post, cvars >>

\* Close called from several goroutines at once.  The select and the close
\* it leads to are two steps of a caller, and steps of other callers can
\* come between them.

CloseCallers == {"g1", "g2"}

\* select { case <-w.stopConsumeCh: default: } when w.stopConsumeCh != nil:
\* the case that is taken
StopSelect(ch) ==
    IF ch = "nil" THEN "skipped"
    ELSE IF ch = "closed" THEN "received"
    ELSE "default"

\* caller c enters Close on an opened wrapper: w.m.Close(), then the select
CloseEnter(c) ==
    /\ panicked = "none"
    /\ openRet = "nil"
    /\ closers[c] = "idle"
    /\ m' = CloseM(m)
    /\ closers' = [closers EXCEPT ![c] = IF StopSelect(stopConsumeCh) = "default"
                                         THEN "default" ELSE "idle"]
    /\ UNCHANGED << ready, id, conf, encoder, producer, consumer, stopConsumeCh, delivery,
                    deliveryState, handlers, openRet, lpc, tasks, ackLog, panicked, post,
                    cpc, cin, cenc, cdec, reg, crypt, httpc, mk >>

\* caller c, in the default case: close(w.stopConsumeCh), and Close returns
CloseDefault(c) ==
    /\ panicked = "none"
    /\ closers[c] = "default"
    /\ closers' = [closers EXCEPT ![c] = "idle"]
    /\ IF ChanClose(stopConsumeCh) = "panic"
       THEN /\ panicked' = "close of closed channel"
            /\ UNCHANGED stopConsumeCh
       ELSE /\ stopConsumeCh' = ChanClose(stopConsumeCh)
            /\ UNCHANGED panicked
    /\ UNCHANGED << ready, id, conf, encoder, m, producer, consumer, delivery,
                    deliveryState, handlers, openRet, lpc, tasks, ackLog, post,
                    cpc, cin, cenc, cdec, reg, crypt, httpc, mk >>

\* ------------------------------------------------------------------------
\* Handler registry

ActionKeys == {1}
Handlers == {"h1", "h2"}

\* a faulty findHandler: an absent key yields some registered handler
findHandlerAny(hs, actionKey) ==
    IF actionKey \in DOMAIN hs THEN hs[actionKey]
    ELSE IF DOMAIN hs = {} THEN "nil"
    ELSE hs[CHOOSE k \in DOMAIN hs : TRUE]

\* w.handlers[actionKey], nil when absent
findHandler(hs, actionKey) ==
    IF actionKey \in DOMAIN hs THEN hs[actionKey] ELSE "nil"

\* a faulty RegistErr: a nil handler is not refused
RegistErrNilOk(hs, actionKey, f) ==
    IF actionKey \in DOMAIN hs THEN "had been existed" ELSE "nil"

\* a faulty RegistErr: a key already registered is not refused
RegistErrOverwrite(hs, actionKey, f) ==
    IF f = "nil" THEN "is nil" ELSE "nil"

\* the error RegistActionHandler returns, "nil" for success
RegistErr(hs, actionKey, f) ==
    IF f = "nil" THEN "is nil"
    ELSE IF actionKey \in DOMAIN hs THEN "had been existed"
    ELSE "nil"

\* w.handlers once f is stored under actionKey
Registered(hs, actionKey, f) ==
    [k \in DOMAIN hs \cup {actionKey} |-> IF k = actionKey THEN f ELSE hs[k]]

RegistActionHandler(actionKey, f) ==
    /\ panicked = "none"
    /\ handlers' = IF RegistErr(handlers, actionKey, f) = "nil"
                   THEN Registered(handlers, actionKey, f)
                   ELSE handlers
    /\ UNCHANGED << ready, wvars, delivery, lpc, tasks, ackLog, panicked, post, cvars >>

\* the application calls RegistActionHandler and keeps what it returned
NoReg == [op |-> "none", key |-> 0, f |-> "nil", ret |-> "none"]
RegistryKeys == {-1, 1, 2}

RegistryRegist(actionKey, f) ==
    /\ panicked = "none"
    /\ handlers' = IF RegistErr(handlers, actionKey, f) = "nil"
                   THEN Registered(handlers, actionKey, f)
                   ELSE handlers
    /\ reg' = [op |-> "regist", key |-> actionKey, f |-> f,
               ret |-> RegistErr(handlers, actionKey, f)]
    /\ UNCHANGED << ready, wvars, delivery, lpc, tasks, ackLog, panicked, post,
                    cpc, cin, cenc, cdec, crypt, httpc, closers, mk >>

\* a lookup, as handleMsg makes it, and what it returned
RegistryFind(actionKey) ==
    /\ panicked = "none"
    /\ reg' = [op |-> "find", key |-> actionKey, f |-> "nil",
               ret |-> findHandler(handlers, actionKey)]
    /\ UNCHANGED << ready, wvars, delivery, handlers, lpc, tasks, ackLog, panicked, post,
                    cpc, cin, cenc, cdec, crypt, httpc, closers, mk >>

\* ------------------------------------------------------------------------
\* The encoder in use

\* DefaultEncoder() is newMsgEncoderV1(), the one MsgEncoder there is
DefaultEncoder == "v1"
Encoders == {"v1"}

SetEncoder(e) ==
    /\ panicked = "none"
    /\ encoder' = IF e # "nil" THEN e ELSE encoder
    /\ UNCHANGED << ready, id, conf, m, producer, consumer, delivery, deliveryState,
                    stopConsumeCh, handlers, openRet, lpc, tasks, ackLog, panicked,
                    post, cvars >>

\* ------------------------------------------------------------------------
\* The readiness gate: the application makes conf.Ready readable

\* a faulty ReadyReadable: the receive does not wait
ReadyAlways == TRUE

\* <-w.conf.Ready can return
ReadyReadable == ready

FireReady ==
    /\ panicked = "none"
    /\ ~ready
    /\ ready' = TRUE
    /\ UNCHANGED << wvars, delivery, handlers, lpc, tasks, ackLog, panicked, post, cvars >>

\* ------------------------------------------------------------------------
\* The frames the transport delivers

MsgHi == FromSeq(<< 104, 105 >>)
MsgBig == << Rep(0, 51200 + 1) >>

FrameNames ==
    {"ok", "ok empty", "bad magic", "short", "truncated", "oversize", "bad gzip",
     "overflow"}

\* what the sender of the delivery of each name did: a peer framed an action
\* and a message with Encode (kind "ok"), or the frame is malformed
Sent(nm) ==
    CASE nm = "ok" -> [kind |-> "ok", action |-> 1, msg |-> MsgBig]
      [] nm = "ok empty" -> [kind |-> "ok", action |-> -1, msg |-> << >>]
      [] OTHER -> [kind |-> nm, action |-> 0, msg |-> << >>]

\* bs with its first byte replaced by x
WithFirstByte(bs, x) == BCat(FromSeq(<< x >>), BSlice(bs, 1, BLen(bs)))

\* the frames a peer or a faulty sender can put on the queue
FrameHi == Encode(1, MsgHi).buf
FrameOk == Encode(Sent("ok").action, Sent("ok").msg).buf
FrameOkEmpty == Encode(Sent("ok empty").action, Sent("ok empty").msg).buf
FrameBadMagic == WithFirstByte(FrameHi, magicN + 1)
FrameShort == BSlice(FrameHi, 0, 11)
FrameTruncated == BSlice(FrameHi, 0, BLen(FrameHi) - 1)
FrameOversize == << Rep(magicN, maxSegmentLen + 1) >>
FrameBadGzip == BCat(FromSeq(Header(1, TRUE, IntOfNat(2))), MsgHi)
FrameOverflow == FromSeq(<< magicN, 0, 0, 0, 0, 0, 0, 1, 255, 255, 255, 255 >>)

\* d.Body of the delivery of each name
Deliverable(nm) ==
    CASE nm = "ok" -> FrameOk
      [] nm = "ok empty" -> FrameOkEmpty
      [] nm = "bad magic" -> FrameBadMagic
      [] nm = "short" -> FrameShort
      [] nm = "truncated" -> FrameTruncated
      [] nm = "oversize" -> FrameOversize
      [] nm = "bad gzip" -> FrameBadGzip
      [] nm = "overflow" -> FrameOverflow

\* a delivery not yet made by the transport
NoTask == [pc |-> "none", in |-> "none", panic |-> FALSE, err |-> "none",
           h |-> "nil", action |-> 0, msg |-> << >>, ret |-> "none", log |-> << >>]

Deliveries == 1..MaxDeliveries

\* the number of deliveries the transport has made
Delivered == Cardinality({d \in Deliveries : tasks[d].pc # "none"})

\* make(chan mq.Delivery, 8)
DeliveryCap == 8

\* the transport (SetMsgCallback(w.delivery)) sends a delivery on the channel
TransportDeliver(x) ==
    /\ panicked = "none"
    /\ consumer = "set"
    /\ deliveryState = "open"
    /\ Len(delivery) < DeliveryCap
    /\ Delivered < MaxDeliveries
    /\ LET d == Delivered + 1
       IN  /\ tasks' = [tasks EXCEPT ![d] = [NoTask EXCEPT !.pc = "chan", !.in = x]]
           /\ delivery' = Append(delivery, d)
    /\ UNCHANGED << ready, wvars, handlers, lpc, ackLog, panicked, post, cvars >>

\* the transport closes the delivery channel (transport-side shutdown)
TransportClose ==
    /\ panicked = "none"
    /\ consumer = "set"
    /\ deliveryState = "open"
    /\ deliveryState' = "closed"
    /\ UNCHANGED << ready, id, conf, encoder, m, producer, consumer, stopConsumeCh, openRet,
                    delivery, handlers, lpc, tasks, ackLog, panicked, post, cvars >>

\* ------------------------------------------------------------------------
\* consumeFromLoop

\* <-w.conf.Ready returns
LoopAwake ==
    /\ panicked = "none"
    /\ lpc = "waitReady"
    /\ ReadyReadable
    /\ lpc' = "select"
    /\ UNCHANGED << ready, wvars, delivery, handlers, tasks, ackLog, panicked, post, cvars >>

\* a faulty LoopWaits: handleMsg is called, not started with go
LoopWaitsForHandleMsg(ts) == \E d \in DOMAIN ts : ts[d].pc \in {"spawned", "handler"}

\* go w.handleMsg(d): the loop does not wait for the goroutines it started
LoopWaits(ts) == FALSE

\* defer close(w.delivery): closing a closed channel panics
DeferredClose ==
    IF deliveryState = "closed"
    THEN /\ panicked' = "close of closed channel"
         /\ UNCHANGED deliveryState
    ELSE /\ deliveryState' = "closed"
         /\ UNCHANGED panicked

\* case <-w.stopConsumeCh: return
LoopStop ==
    /\ panicked = "none"
    /\ lpc = "select"
    /\ ~LoopWaits(tasks)
    /\ stopConsumeCh = "closed"
    /\ lpc' = "done"
    /\ DeferredClose
    /\ UNCHANGED << ready, id, conf, encoder, m, producer, consumer, stopConsumeCh, openRet,
                    delivery, handlers, tasks, ackLog, post, cvars >>

\* a faulty ChanRecv: the newest element is received
ChanRecvLast(ch) == [d |-> ch[Len(ch)], rest |-> SubSeq(ch, 1, Len(ch) - 1)]

\* a receive from the non-empty channel buffer ch: the oldest element
ChanRecv(ch) == [d |-> Head(ch), rest |-> Tail(ch)]

\* case d, ok := <-w.delivery with ok: go w.handleMsg(d)
LoopRecv ==
    /\ panicked = "none"
    /\ lpc = "select"
    /\ ~LoopWaits(tasks)
    /\ delivery # << >>
    /\ tasks' = [tasks EXCEPT ![ChanRecv(delivery).d].pc = "spawned"]
    /\ delivery' = ChanRecv(delivery).rest
    /\ UNCHANGED << ready, wvars, handlers, lpc, ackLog, panicked, post, cvars >>

\* case d, ok := <-w.delivery with !ok: return
LoopClosed ==
    /\ panicked = "none"
    /\ lpc = "select"
    /\ ~LoopWaits(tasks)
    /\ deliveryState = "closed"
    /\ delivery = << >>
    /\ lpc' = "done"
    /\ DeferredClose
    /\ UNCHANGED << ready, id, conf, encoder, m, producer, consumer, stopConsumeCh, openRet,
                    delivery, handlers, tasks, ackLog, post, cvars >>

\* ------------------------------------------------------------------------
\* handleMsg

\* w.conf.Warn.Println(...) when w.conf.Warn != nil
WarnEvents(c) == IF c.Warn THEN << "warn" >> ELSE << >>

\* defer d.Ack(false)
DeferredAck == << "ack" >>

\* a faulty HandleMsgRun: d.Ack is called at the end of the function body
\* and not deferred, so the early returns skip it
HandleMsgRunAckAtEnd(c, hs, b) ==
    LET dec == Decode(b)
        h == findHandler(hs, dec.action)
    IN  IF dec.err = "panic: slice bounds out of range"
        THEN [dec |-> dec, h |-> "nil", log |-> << >>, pc |-> "panic"]
        ELSE IF dec.err # "nil"
        THEN [dec |-> dec, h |-> "nil", log |-> WarnEvents(c), pc |-> "done"]
        ELSE IF h = "nil"
        THEN [dec |-> dec, h |-> "nil", log |-> WarnEvents(c) \o DeferredAck, pc |-> "done"]
        ELSE [dec |-> dec, h |-> h, log |-> << "call" >>, pc |-> "handler"]

\* what handleMsg does up to its return or to the call of the handler, for
\* d.Body = b: the Decode result, the handler found, the events in order and
\* whether it has returned
HandleMsgRun(c, hs, b) ==
    LET dec == Decode(b)
        h == findHandler(hs, dec.action)
    IN  IF dec.err = "panic: slice bounds out of range"
        THEN [dec |-> dec, h |-> "nil", log |-> DeferredAck, pc |-> "panic"]
        ELSE IF dec.err # "nil"
        THEN [dec |-> dec, h |-> "nil", log |-> WarnEvents(c) \o DeferredAck, pc |-> "done"]
        ELSE IF h = "nil"
        THEN [dec |-> dec, h |-> "nil", log |-> WarnEvents(c) \o DeferredAck, pc |-> "done"]
        ELSE [dec |-> dec, h |-> h, log |-> << "call" >>, pc |-> "handler"]

\* a faulty AfterHandler: the delivery is acknowledged before the handler
\* returns
AfterHandlerAckFirst(ret) == DeferredAck \o << "return" >>

\* the events after the handler h(actionKey, msgBody) has returned ret
AfterHandler(ret) == << "return" >> \o DeferredAck

\* the deliveries acknowledged by the events ev of delivery d
Acks(d, ev) == SelectSeq([i \in 1..Len(ev) |-> IF ev[i] = "ack" THEN d ELSE 0],
                         LAMBDA x : x # 0)

\* the task of a delivery after the run r of handleMsg
TaskAfterRun(t, r) ==
    [t EXCEPT !.pc = IF r.pc = "panic" THEN "done" ELSE r.pc,
              !.panic = r.pc = "panic",
              !.err = r.dec.err,
              !.h = r.h,
              !.action = r.dec.action,
              !.msg = r.dec.msgBody,
              !.log = r.log]

\* the goroutine of delivery d runs handleMsg up to the handler call
HandleMsgBegin(d) ==
    /\ panicked = "none"
    /\ tasks[d].pc = "spawned"
    /\ tasks' = [tasks EXCEPT ![d] =
                    TaskAfterRun(@, HandleMsgRun(conf, handlers, Deliverable(tasks[d].in)))]
    /\ ackLog' = ackLog \o Acks(d, tasks'[d].log)
    /\ panicked' = IF tasks'[d].panic THEN "slice bounds out of range" ELSE "none"
    /\ UNCHANGED << ready, wvars, delivery, handlers, lpc, post, cvars >>

\* w.handlers[actionKey] = f in RegistActionHandler (718) runs while the
\* goroutine of delivery d reads w.handlers[actionKey] in findHandler (723):
\* neither holds a lock, and the Go runtime can end the process when it sees
\* a map written and read at once (the serialised outcomes are the
\* interleavings of RegistActionHandler and HandleMsgBegin)
RegistDuringLookup(d, actionKey, f) ==
    /\ panicked = "none"
    /\ tasks[d].pc = "spawned"
    /\ RegistErr(handlers, actionKey, f) = "nil"
    /\ Decode(Deliverable(tasks[d].in)).err = "nil"
    /\ panicked' = "concurrent map read and map write"
    /\ UNCHANGED << ready, wvars, delivery, handlers, lpc, tasks, ackLog, post, cvars >>

\* what a handler can return
HandlerRets == {"nil", "error"}

\* the handler of delivery d returns ret; handleMsg returns
HandlerReturn(d, ret) ==
    /\ panicked = "none"
    /\ tasks[d].pc = "handler"
    /\ LET ev == AfterHandler(ret)
       IN  /\ tasks' = [tasks EXCEPT ![d].pc = "done",
                                     ![d].ret = ret,
                                     ![d].log = @ \o ev]
           /\ ackLog' = ackLog \o Acks(d, ev)
    /\ UNCHANGED << ready, wvars, delivery, handlers, lpc, panicked, post, cvars >>

\* ------------------------------------------------------------------------
\* Post

\* an error value: "nil", a fixed message, or the error of publish attempt i
Err(e, i) == [e |-> e, i |-> i]
Nil == Err("nil", 0)

\* the Post call: pc is where it stands, err the local variable err, ret the
\* returned error, log the outcome of each Publish call, warns the number of
\* Warn.Println calls, early whether it was called before readiness, prior
\* how the call before this one failed
NoPost == [pc |-> "idle", action |-> 0, msg |-> << >>, retry |-> 0, i |-> 0,
           err |-> Nil, ret |-> Err("none", 0), encoded |-> FALSE,
           log |-> << >>, warns |-> 0, early |-> FALSE, prior |-> "none"]

\* how the call p failed: not at all, on the disabled producer role, in
\* Encode, or in the last Publish
Failure(p) ==
    IF p.pc # "done" \/ p.ret = Nil THEN "none"
    ELSE IF p.ret.e = "Producer is disabled" THEN "disabled"
    ELSE IF p.ret.e = "publish" THEN "publish"
    ELSE "encode"

\* the retry arguments given to Post
Retries == -1 .. MaxRetry

\* an incompressible message too long for one segment
MsgHuge == << Rnd(0, maxSegmentLen) >>

\* the messages given to Post
PostMsgs == { MsgHi, MsgHuge }

\* a faulty LoopCond: one attempt too few
LoopCondShort(i, retry) == i < retry

\* for i := 0; i < retry+1; i++
LoopCond(i, retry) == i < retry + 1

\* a faulty PostKeeps: a Post whose attempts all failed gives up the producer
PostDropsProducer ==
    /\ producer' = IF Failure(post') = "publish" THEN "nil" ELSE producer
    /\ UNCHANGED << ready, id, conf, m, consumer, deliveryState, stopConsumeCh, encoder,
                    openRet, delivery, handlers, lpc, tasks, ackLog, panicked, cvars >>

\* Post assigns no field of the wrapper and touches neither of its channels
PostKeeps ==
    UNCHANGED << ready, wvars, delivery, handlers, lpc, tasks, ackLog, panicked, cvars >>

\* Post(actionKey, msg, retry) is called; it returns at once when the
\* producer is disabled, and otherwise waits on <-w.conf.Ready.  Post on a
\* wrapper whose Open did not set w.conf or w.producer dereferences nil
\* and is not called here.
PostCall(actionKey, msg, retry) ==
    /\ panicked = "none"
    /\ post.pc \in {"idle", "done"}
    /\ ~conf.nil
    /\ conf.EnableProducer => producer = "set"
    /\ post' = IF ~conf.EnableProducer
               THEN [NoPost EXCEPT !.pc = "done", !.action = actionKey, !.msg = msg,
                                   !.retry = retry, !.prior = Failure(post),
                                   !.ret = Err("Producer is disabled", 0)]
               ELSE [NoPost EXCEPT !.pc = "waitReady", !.action = actionKey,
                                   !.msg = msg, !.retry = retry,
                                   !.prior = Failure(post),
                                   !.early = ~ReadyReadable]
    /\ PostKeeps

\* Post when control reaches the loop test with error value err
PostLoopTest(p, err, i) ==
    IF LoopCond(i, p.retry)
    THEN [p EXCEPT !.pc = "publish", !.i = i, !.err = err]
    ELSE [p EXCEPT !.pc = "done", !.i = i, !.err = err, !.ret = err]

\* <-w.conf.Ready returns
PostAwake ==
    /\ panicked = "none"
    /\ post.pc = "waitReady"
    /\ ReadyReadable
    /\ post' = [post EXCEPT !.pc = "encode"]
    /\ PostKeeps

\* Post after w.encoder.Encode returned enc: return its error, or enter the
\* loop at its first test
AfterEncode(p, enc) ==
    IF enc.err # "nil"
    THEN [p EXCEPT !.pc = "done", !.err = Err(enc.err, 0), !.ret = Err(enc.err, 0)]
    ELSE PostLoopTest([p EXCEPT !.encoded = TRUE], Nil, 0)

\* b, err := w.encoder.Encode(actionKey, msg)
PostEncode ==
    /\ panicked = "none"
    /\ post.pc = "encode"
    /\ post' = AfterEncode(post, Encode(post.action, post.msg))
    /\ PostKeeps

\* a faulty AfterPublish: a successful Publish does not leave the loop
AfterPublishNoBreak(p, c, ok) ==
    LET n == Len(p.log) + 1
    IN  IF ok
        THEN [p EXCEPT !.log = Append(@, "ok"), !.err = Nil, !.pc = "sleep"]
        ELSE [p EXCEPT !.log = Append(@, "failed"), !.err = Err("publish", n),
                       !.warns = IF c.Warn THEN @ + 1 ELSE @,
                       !.pc = "sleep"]

\* Post after w.producer.Publish returned: ok, or the error of this attempt
AfterPublish(p, c, ok) ==
    LET n == Len(p.log) + 1
    IN  IF ok
        THEN [p EXCEPT !.log = Append(@, "ok"), !.err = Nil,
                       !.pc = "done", !.ret = Nil]
        ELSE [p EXCEPT !.log = Append(@, "failed"), !.err = Err("publish", n),
                       !.warns = IF c.Warn THEN @ + 1 ELSE @,
                       !.pc = "sleep"]

\* one w.producer.Publish call; the transport accepts it or fails
PostPublish(ok) ==
    /\ panicked = "none"
    /\ post.pc = "publish"
    /\ post' = AfterPublish(post, conf, ok)
    /\ PostKeeps

\* time.Sleep(time.Second) returns; i++; the loop test
PostSleep ==
    /\ panicked = "none"
    /\ post.pc = "sleep"
    /\ post' = PostLoopTest(post, post.err, post.i + 1)
    /\ PostKeeps

\* ------------------------------------------------------------------------
\* Codec harness: Encode and Decode applied to enumerated inputs

\* int32 action identifiers
CodecActions == { -2147483647 - 1, -1, 0, 1, 10130, 2147483647 }

\* lengths around the limit n
Near(n) == { k \in (n - Slack) .. (n + Slack) : k >= 0 }

PayloadLens ==
    (1 .. MaxSmall) \cup Near(51200) \cup Near(maxSegmentLen - 12)

\* message bodies given to Encode
Payloads ==
    { << >> }
        \cup { << Rep(b, n) >> : b \in {0, magicN, 255}, n \in PayloadLens }
        \cup { << Rnd(0, n) >> : n \in PayloadLens }
        \cup { << Rep(b, n), Rnd(1, k) >> : b \in {0, 255}, n \in 1 .. MaxSmall,
                                            k \in Near(51200) }

\* declared payload lengths for a frame whose body holds n bytes
DeclaredLens(n) ==
    { U32OfNat(k) : k \in Near(n) }
        \cup { U32OfNat(2147483647), U32(32768, 0) }
        \cup { U32(65535, 65535 - k) : k \in 0 .. (12 + Slack) }

\* a frame with the magic byte, option byte opt, action a, declared payload
\* length u and n payload bytes
RawFrame(opt, a, u, n) ==
    BCat(FromSeq(<< magicN, opt, 0, 0 >> \o PutUint32(U32OfInt32(a)) \o PutUint32(u)),
         IF n = 0 THEN << >> ELSE << Rep(7, n) >>)

\* the payload sizes of the frames handed to Decode
RawBodyLens == (0 .. MaxSmall) \cup {maxSegmentLen - 12}

\* frames with the magic byte and an arbitrary declared payload length
RawFrames ==
    UNION { { RawFrame(opt, a, u, n) : opt \in {0, 128}, a \in {1, -1},
                                       u \in DeclaredLens(n) } : n \in RawBodyLens }

NoEnc == [err |-> "none", buf |-> << >>]
NoDec == DecodeErr("none")
NoIn == [action |-> 0, msg |-> << >>, frame |-> << >>]

CodecEncode(actionKey, msgBody) ==
    /\ cpc = "start"
    /\ cin' = [NoIn EXCEPT !.action = actionKey, !.msg = msgBody]
    /\ cenc' = Encode(actionKey, msgBody)
    /\ cpc' = "encoded"
    /\ UNCHANGED << cdec, reg, crypt, httpc, closers, mk, ready, wvars, delivery, handlers, lpc, tasks, ackLog,
                    panicked, post >>

\* Decode of the frame Encode produced
CodecDecode ==
    /\ cpc = "encoded"
    /\ cenc.err = "nil"
    /\ cdec' = Decode(cenc.buf)
    /\ cpc' = "decoded"
    /\ UNCHANGED << cin, cenc, reg, crypt, httpc, closers, mk, ready, wvars, delivery, handlers, lpc, tasks, ackLog,
                    panicked, post >>

\* Decode of a frame received from elsewhere
CodecDecodeRaw(b) ==
    /\ cpc = "start"
    /\ cin' = [NoIn EXCEPT !.frame = b]
    /\ cdec' = Decode(b)
    /\ cpc' = "decodedRaw"
    /\ UNCHANGED << cenc, reg, crypt, httpc, closers, mk, ready, wvars, delivery, handlers, lpc, tasks, ackLog,
                    panicked, post >>

\* ------------------------------------------------------------------------
\* Package cryptolib: Encrypt / Decrypt.  Keys, plaintexts and encrypted
\* contents are sequences of bytes.

TypeXORBase64 == 1
TypeAES128 == 2
TypeAES256 == 3

\* aes.BlockSize
BlockSize == 16

\* makeKey: the key doubled until it has size bytes, then cut to size
RECURSIVE makeKey(_, _)
makeKey(key, size) ==
    IF Len(key) < size THEN makeKey(key \o key, size) ELSE SubSeq(key, 1, size)

\* a ^ b on the low w bits
RECURSIVE XorBits(_, _, _)
XorBits(a, b, w) ==
    IF w = 0 THEN 0
    ELSE (((a % 2) + (b % 2)) % 2) + 2 * XorBits(a \div 2, b \div 2, w - 1)

\* k[i] ^ b for every byte b of src
XorWithKey(k, src) == [i \in 1..Len(src) |-> XorBits(k[i], src[i], 8)]

\* the alphabet of base64.StdEncoding, as character codes: A-Z a-z 0-9 + /
Base64Alphabet ==
    [i \in 1..64 |-> IF i <= 26 THEN 64 + i
                     ELSE IF i <= 52 THEN 96 + (i - 26)
                     ELSE IF i <= 62 THEN 47 + (i - 52)
                     ELSE IF i = 63 THEN 43 ELSE 47]

\* the padding character '='
Base64Pad == 61

Base64Char(v) == Base64Alphabet[v + 1]

\* base64.StdEncoding.Encode
RECURSIVE Base64Encode(_)
Base64Encode(s) ==
    IF s = << >> THEN << >>
    ELSE IF Len(s) = 1
    THEN << Base64Char(s[1] \div 4), Base64Char((s[1] % 4) * 16), Base64Pad, Base64Pad >>
    ELSE IF Len(s) = 2
    THEN << Base64Char(s[1] \div 4), Base64Char((s[1] % 4) * 16 + s[2] \div 16),
            Base64Char((s[2] % 16) * 4), Base64Pad >>
    ELSE << Base64Char(s[1] \div 4), Base64Char((s[1] % 4) * 16 + s[2] \div 16),
            Base64Char((s[2] % 16) * 4 + s[3] \div 64), Base64Char(s[3] % 64) >>
            \o Base64Encode(SubSeq(s, 4, Len(s)))

\* the 6-bit value of the character code c, -1 when c is not in the alphabet
Base64Value(c) ==
    IF \E v \in 0..63 : Base64Char(v) = c
    THEN CHOOSE v \in 0..63 : Base64Char(v) = c
    ELSE -1

\* base64.StdEncoding.Decode: groups of four characters, padding only at the
\* end of the last group
RECURSIVE Base64Decode(_)
Base64Decode(s) ==
    IF s = << >> THEN [err |-> "nil", out |-> << >>]
    ELSE IF Len(s) < 4 THEN [err |-> "illegal base64 data", out |-> << >>]
    ELSE LET a == Base64Value(s[1])
             b == Base64Value(s[2])
             c == Base64Value(s[3])
             d == Base64Value(s[4])
             last == Len(s) = 4
             bad == [err |-> "illegal base64 data", out |-> << >>]
         IN  IF a < 0 \/ b < 0 THEN bad
             ELSE IF last /\ s[3] = Base64Pad /\ s[4] = Base64Pad
             THEN [err |-> "nil", out |-> << a * 4 + b \div 16 >>]
             ELSE IF c < 0 THEN bad
             ELSE IF last /\ s[4] = Base64Pad
             THEN [err |-> "nil",
                   out |-> << a * 4 + b \div 16, (b % 16) * 16 + c \div 4 >>]
             ELSE IF d < 0 THEN bad
             ELSE LET rest == Base64Decode(SubSeq(s, 5, Len(s)))
                  IN  IF rest.err # "nil" THEN bad
                      ELSE [err |-> "nil",
                            out |-> << a * 4 + b \div 16, (b % 16) * 16 + c \div 4,
                                       (c % 4) * 64 + d >> \o rest.out]

EncryptWithXORBase64(key, src) ==
    [err |-> "nil", out |-> Base64Encode(XorWithKey(makeKey(key, Len(src)), src))]

DecryptWithXORBase64(key, src) ==
    LET dec == Base64Decode(src)
    IN  IF dec.err # "nil" THEN dec
        ELSE [err |-> "nil", out |-> XorWithKey(makeKey(key, Len(dec.out)), dec.out)]

PKCS7Padding(text, blockSize) ==
    LET padding == blockSize - (Len(text) % blockSize)
    IN  text \o [i \in 1..padding |-> padding]

\* origData[length-1] panics on an empty slice, and origData[:length-unpadding]
\* panics when unpadding is larger than length
PKCS7UnPadding(origData) ==
    LET length == Len(origData)
    IN  IF length = 0
        THEN [panic |-> "panic: index out of range", out |-> << >>]
        ELSE IF length - origData[length] < 0
        THEN [panic |-> "panic: slice bounds out of range", out |-> << >>]
        ELSE [panic |-> "none", out |-> SubSeq(origData, 1, length - origData[length])]

\* The block cipher of crypto/aes under key k stands as the addition, byte by
\* byte, of the key bytes that fall on that position of the block: a
\* permutation of the blocks that depends on the key, as AES is.
BlockKey(k, i) ==
    (k[i] + (IF Len(k) > BlockSize THEN k[i + BlockSize] ELSE 0)) % 256

EncryptBlock(k, blk) == [i \in 1..BlockSize |-> (blk[i] + BlockKey(k, i)) % 256]
DecryptBlock(k, blk) == [i \in 1..BlockSize |-> (blk[i] + 256 - BlockKey(k, i)) % 256]

\* cipher.NewCBCEncrypter(block, iv).CryptBlocks: each block is xored with
\* the previous encrypted block (the IV for the first) and then encrypted
RECURSIVE CBCEncrypt(_, _, _)
CBCEncrypt(k, prev, src) ==
    IF src = << >> THEN << >>
    ELSE LET blk == EncryptBlock(k, [i \in 1..BlockSize |-> XorBits(src[i], prev[i], 8)])
         IN  blk \o CBCEncrypt(k, blk, SubSeq(src, BlockSize + 1, Len(src)))

\* cipher.NewCBCDecrypter(block, iv).CryptBlocks
RECURSIVE CBCDecrypt(_, _, _)
CBCDecrypt(k, prev, src) ==
    IF src = << >> THEN << >>
    ELSE LET blk == SubSeq(src, 1, BlockSize)
             dec == DecryptBlock(k, blk)
         IN  [i \in 1..BlockSize |-> XorBits(dec[i], prev[i], 8)]
                 \o CBCDecrypt(k, blk, SubSeq(src, BlockSize + 1, Len(src)))

\* aesEncrypt: PKCS7 padding, key of bit/8 bytes, random IV in front, CBC
aesEncrypt(key, src, bit, iv) ==
    LET toEncrypt == PKCS7Padding(src, BlockSize)
    IN  IF (Len(toEncrypt) % BlockSize) # 0
        THEN [err |-> "Content to encrypt is not a multiple of the block size",
              out |-> << >>]
        ELSE [err |-> "nil",
              out |-> iv \o CBCEncrypt(makeKey(key, bit \div 8), iv, toEncrypt)]

\* aesDecrypt: the first block is the IV
aesDecrypt(key, src, bit) ==
    IF Len(src) < BlockSize
    THEN [err |-> "Content to decrypt to short", out |-> << >>]
    ELSE IF ((Len(src) - BlockSize) % BlockSize) # 0
    THEN [err |-> "Content to decrypt is not a multiple of the block size",
          out |-> << >>]
    ELSE LET un == PKCS7UnPadding(CBCDecrypt(makeKey(key, bit \div 8),
                                             SubSeq(src, 1, BlockSize),
                                             SubSeq(src, BlockSize + 1, Len(src))))
         IN  IF un.panic # "none" THEN [err |-> un.panic, out |-> << >>]
             ELSE [err |-> "nil", out |-> un.out]

EncryptWithAES256(key, src, iv) == aesEncrypt(key, src, 256, iv)
DecryptWithAES256(key, src) == aesDecrypt(key, src, 256)
EncryptWithAES128(key, src, iv) == aesEncrypt(key, src, 128, iv)
DecryptWithAES128(key, src) == aesDecrypt(key, src, 128)

\* Encrypt: the cipher chosen by encType, and encType appended as last byte
Encrypt(key, toEncrypt, encType, iv) ==
    LET r == CASE encType = TypeXORBase64 -> EncryptWithXORBase64(key, toEncrypt)
               [] encType = TypeAES128 -> EncryptWithAES128(key, toEncrypt, iv)
               [] encType = TypeAES256 -> EncryptWithAES256(key, toEncrypt, iv)
               [] OTHER -> [err |-> "No Encrypt method found", out |-> << >>]
    IN  IF r.err = "nil" THEN [err |-> "nil", out |-> r.out \o << encType >>]
        ELSE [err |-> r.err, out |-> << >>]

\* Decrypt: the cipher chosen by the last byte
Decrypt(key, toDecrypt) ==
    IF Len(toDecrypt) < 1 THEN [err |-> "Bad content to decrypt", out |-> << >>]
    ELSE LET t == toDecrypt[Len(toDecrypt)]
             body == SubSeq(toDecrypt, 1, Len(toDecrypt) - 1)
         IN  CASE t = TypeXORBase64 -> DecryptWithXORBase64(key, body)
               [] t = TypeAES128 -> DecryptWithAES128(key, body)
               [] OTHER -> [err |-> "No Decrypt method found", out |-> << >>]

\* Cipher harness: Encrypt applied to enumerated inputs, Decrypt to its result

NoCipherRet == [err |-> "none", out |-> << >>]
NoCrypt == [pc |-> "start", key |-> << >>, plain |-> << >>, type |-> 0,
            enc |-> NoCipherRet, dec |-> NoCipherRet]

\* the key of the package's tests
TestKey == << 99, 120, 121, 38, 100, 122, 120, 38, 122, 119, 102, 64, 50, 48, 49, 56 >>

CipherKeys == { << 7 >>, << 255, 0, 90 >>, TestKey }

\* plaintexts of 0 .. MaxSmall bytes and around the block size
CipherTexts ==
    { [i \in 1..n |-> (37 * i + 200) % 256] :
         n \in (0 .. MaxSmall) \cup ((BlockSize - 1) .. (BlockSize + 1)) }

\* the encryption types of the package and two that are none of them
CipherTypes == {0, TypeXORBase64, TypeAES128, TypeAES256, 4}

\* what rand.Reader puts in the IV
IVs == { [i \in 1..BlockSize |-> (x * i) % 256] : x \in {3, 77} }

CipherEncrypt(key, toEncrypt, encType, iv) ==
    /\ crypt.pc = "start"
    /\ crypt' = [NoCrypt EXCEPT !.pc = "encrypted", !.key = key, !.plain = toEncrypt,
                                !.type = encType,
                                !.enc = Encrypt(key, toEncrypt, encType, iv)]
    /\ UNCHANGED << ready, wvars, delivery, handlers, lpc, tasks, ackLog, panicked, post,
                    cpc, cin, cenc, cdec, reg, httpc, closers, mk >>

\* a block of plaintext that ends in the byte b, not padded
BlockEndingIn(b) == [i \in 1..BlockSize |-> IF i = BlockSize THEN b ELSE 65]

\* the last bytes of the blocks encrypted without padding: 0, a padding of
\* one byte, of a whole block, and bytes larger than the block
LastBytes == {0, 1, BlockSize, BlockSize + 1, 200, 255}

\* AES128 content whose decryption under key ends in the byte b
Crafted(key, iv, b) ==
    iv \o CBCEncrypt(makeKey(key, 128 \div 8), iv, BlockEndingIn(b)) \o << TypeAES128 >>

\* contents no Encrypt call produced: empty, with an unknown type, AES
\* content shorter than a block, of the IV alone, not a multiple of the block
\* size, ending in a wrong padding, and text that is not base64
MalformedContents ==
    { << >>, << 0 >>, << 4 >>, << 65, 66, 67, 9 >>, << TypeAES256 >>,
      << TypeAES128 >>, << TypeXORBase64 >>,
      [i \in 1..BlockSize |-> IF i = BlockSize THEN TypeAES128 ELSE 7],
      << 33, 1, TypeXORBase64 >>, << 84, 81, 61, 61, TypeXORBase64 >>,
      << 84, 81, 61, TypeXORBase64 >> }
    \cup { iv \o << TypeAES128 >> : iv \in IVs }
    \cup { iv \o << 5, TypeAES128 >> : iv \in IVs }
    \cup { Crafted(k, iv, b) : k \in CipherKeys, iv \in IVs, b \in LastBytes }

\* Decrypt applied to content that Encrypt did not produce
CipherDecryptRaw(key, toDecrypt) ==
    /\ crypt.pc = "start"
    /\ crypt' = [NoCrypt EXCEPT !.pc = "decryptedRaw", !.key = key,
                                !.enc = [err |-> "none", out |-> toDecrypt],
                                !.dec = Decrypt(key, toDecrypt)]
    /\ UNCHANGED << ready, wvars, delivery, handlers, lpc, tasks, ackLog, panicked, post,
                    cpc, cin, cenc, cdec, reg, httpc, closers, mk >>

\* Decrypt of what Encrypt returned, with the same key
CipherDecrypt ==
    /\ crypt.pc = "encrypted"
    /\ crypt.enc.err = "nil"
    /\ crypt' = [crypt EXCEPT !.pc = "decrypted", !.dec = Decrypt(crypt.key, crypt.enc.out)]
    /\ UNCHANGED << ready, wvars, delivery, handlers, lpc, tasks, ackLog, panicked, post,
                    cpc, cin, cenc, cdec, reg, httpc, closers, mk >>

\* makeKey step by step: the evaluation of the loop condition, the append of
\* the loop body, and the return

NoMakeKey == [pc |-> "idle", arg |-> << >>, key |-> << >>, size |-> 0, out |-> << >>]

\* the keys given to makeKey, the empty one included
MakeKeyKeys == { << >>, << 7 >>, << 1, 2 >>, << 255, 0, 90 >>, TestKey }

\* the sizes asked for: len(src) in the XOR cipher, bit/8 in AES
MakeKeySizes == (0 .. MaxSmall) \cup {5, 128 \div 8, 17, 256 \div 8}

\* makeKey(key, size) is called
MakeKeyCall(key, size) ==
    /\ mk.pc = "idle"
    /\ mk' = [NoMakeKey EXCEPT !.pc = "loop", !.arg = key, !.key = key, !.size = size]
    /\ UNCHANGED << ready, wvars, delivery, handlers, lpc, tasks, ackLog, panicked, post,
                    cpc, cin, cenc, cdec, reg, crypt, httpc, closers >>

\* for len(key) < size: the condition is true, control enters the body
MakeKeyEnter ==
    /\ mk.pc = "loop"
    /\ Len(mk.key) < mk.size
    /\ mk' = [mk EXCEPT !.pc = "body"]
    /\ UNCHANGED << ready, wvars, delivery, handlers, lpc, tasks, ackLog, panicked, post,
                    cpc, cin, cenc, cdec, reg, crypt, httpc, closers >>

\* key = append(key, key...), and back to the condition
MakeKeyAppend ==
    /\ mk.pc = "body"
    /\ mk' = [mk EXCEPT !.pc = "loop", !.key = mk.key \o mk.key]
    /\ UNCHANGED << ready, wvars, delivery, handlers, lpc, tasks, ackLog, panicked, post,
                    cpc, cin, cenc, cdec, reg, crypt, httpc, closers >>

\* the loop condition is false: return key[0:size]
MakeKeyReturn ==
    /\ mk.pc = "loop"
    /\ ~(Len(mk.key) < mk.size)
    /\ mk' = [mk EXCEPT !.pc = "returned", !.out = SubSeq(mk.key, 1, mk.size)]
    /\ UNCHANGED << ready, wvars, delivery, handlers, lpc, tasks, ackLog, panicked, post,
                    cpc, cin, cenc, cdec, reg, crypt, httpc, closers >>

\* ------------------------------------------------------------------------
\* Package httplib: HTTPClient.send, from the response on.  A bytes.Buffer is
\* its contents and its read offset.

NewBuffer == [buf |-> << >>, off |-> 0]

\* (*bytes.Buffer).ReadFrom(r): everything r yields is appended
BufferReadFrom(b, body) == [b EXCEPT !.buf = b.buf \o body]

\* (*bytes.Buffer).Len: the number of unread bytes
BufferLen(b) == Len(b.buf) - b.off

\* (*bytes.Buffer).Next(n): the next n unread bytes, which are then read
BufferNext(b, n) ==
    LET k == Min(n, BufferLen(b))
    IN  [data |-> SubSeq(b.buf, b.off + 1, b.off + k), b |-> [b EXCEPT !.off = b.off + k]]

\* (*bytes.Buffer).WriteTo(w): the unread bytes go to w, and are then read
BufferWriteTo(b, w) == BufferReadFrom(w, SubSeq(b.buf, b.off + 1, Len(b.buf)))

\* the contents of a buffer that are still to read
BufferBytes(b) == SubSeq(b.buf, b.off + 1, Len(b.buf))

\* The struct JSONResult points to has one integer field, a.
\* json.Unmarshal(data, v): {"a":d} sets the field, {} leaves v as it is,
\* anything else is an error and leaves v as it is.
IsObjectA(data) ==
    /\ Len(data) = 7
    /\ SubSeq(data, 1, 5) = << 123, 34, 97, 34, 58 >>
    /\ data[6] \in 48..57
    /\ data[7] = 125

JSONUnmarshal(data, v) ==
    IF IsObjectA(data) THEN [err |-> "nil", v |-> [a |-> data[6] - 48]]
    ELSE IF data = << 123, 125 >> THEN [err |-> "nil", v |-> v]
    ELSE [err |-> "Bad response format", v |-> v]

\* send, lines 185-219.  rp is what req.Response() and the read of its
\* body give; hasJSON and hasBytes tell whether args.JSONResult and
\* args.BytesResult are non-nil, json and bytes are what they point to.
send(rp, hasJSON, json, hasBytes, bytes) ==
    LET unchanged(e) == [ret |-> e, json |-> json, bytes |-> bytes]
        n == Len(rp.Body)
        buf == BufferReadFrom(NewBuffer, rp.Body)
        nx == BufferNext(buf, n)
        um == JSONUnmarshal(nx.data, json)
        buf2 == IF hasJSON THEN nx.b ELSE buf
        json2 == IF hasJSON THEN um.v ELSE json
    IN  IF rp.err = "response" THEN unchanged("response")
        ELSE IF rp.err = "read" THEN unchanged("Read http body failed")
        ELSE IF rp.StatusCode # 200 THEN unchanged("StatusCode != 200")
        ELSE IF hasJSON /\ um.err # "nil" THEN unchanged(um.err)
        ELSE [ret |-> "nil", json |-> json2,
              bytes |-> IF hasBytes THEN BufferWriteTo(buf2, bytes) ELSE bytes]

\* HTTP harness

NoResponse == [err |-> "nil", StatusCode |-> 0, Body |-> << >>]
NoCall == [pc |-> "idle", rp |-> NoResponse, hasJSON |-> FALSE, hasBytes |-> FALSE,
           json0 |-> [a |-> 0], bytes0 |-> NewBuffer,
           ret |-> "none", json |-> [a |-> 0], bytes |-> NewBuffer]

\* response bodies: none, two JSON objects the struct can take, the empty
\* object, and text that is not JSON
Bodies ==
    { << >>, << 123, 125 >>, << 123, 34, 97, 34, 58, 55, 125 >>,
      << 123, 34, 97, 34, 58, 48, 125 >>, << 111, 107 >> }

Responses ==
    { [err |-> e, StatusCode |-> sc, Body |-> b] :
          e \in {"nil"}, sc \in {200, 204, 404, 500}, b \in Bodies }
    \cup { [err |-> e, StatusCode |-> 0, Body |-> << >>] : e \in {"response", "read"} }

\* what the caller's BytesResult holds before the call
CallerBuffers == { NewBuffer, BufferReadFrom(NewBuffer, << 35 >>) }

\* what the caller's JSONResult holds before the call
CallerStructs == { [a |-> 0], [a |-> 3] }

HTTPSend(rp, hasJSON, json, hasBytes, bytes) ==
    /\ httpc.pc = "idle"
    /\ LET r == send(rp, hasJSON, json, hasBytes, bytes)
       IN  httpc' = [pc |-> "done", rp |-> rp, hasJSON |-> hasJSON, hasBytes |-> hasBytes,
                     json0 |-> json, bytes0 |-> bytes,
                     ret |-> r.ret, json |-> r.json, bytes |-> r.bytes]
    /\ UNCHANGED << ready, wvars, delivery, handlers, lpc, tasks, ackLog, panicked, post,
                    cpc, cin, cenc, cdec, reg, crypt, closers, mk >>

\* the caller is done with the results and prepares another request
HTTPReturn ==
    /\ httpc.pc = "done"
    /\ httpc' = NoCall
    /\ UNCHANGED << ready, wvars, delivery, handlers, lpc, tasks, ackLog, panicked, post,
                    cpc, cin, cenc, cdec, reg, crypt, closers, mk >>

\* ------------------------------------------------------------------------
\* Specifications

\* New(): empty registry, nothing opened
Init ==
    /\ ready = FALSE
    /\ id = ""
    /\ conf = NilConf
    /\ m = "nil"
    /\ producer = "nil"
    /\ consumer = "nil"
    /\ delivery = << >>
    /\ deliveryState = "nil"
    /\ stopConsumeCh = "nil"
    /\ handlers = << >>
    /\ encoder = DefaultEncoder
    /\ openRet = "none"
    /\ lpc = "none"
    /\ tasks = [d \in Deliveries |-> NoTask]
    /\ ackLog = << >>
    /\ panicked = "none"
    /\ post = NoPost
    /\ cpc = "start"
    /\ cin = NoIn
    /\ cenc = NoEnc
    /\ cdec = NoDec
    /\ reg = NoReg
    /\ crypt = NoCrypt
    /\ httpc = NoCall
    /\ closers = [c \in CloseCallers |-> "idle"]
    /\ mk = NoMakeKey

\* the consuming side: the application opens, registers handlers, signals
\* readiness and closes; the transport delivers; the loop dispatches
Next ==
    \/ \E wid \in WrapperIds : \E c \in ConsumerConfigs : \E fp \in FailPoints(c) :
           Open(wid, c, fp)
    \/ Close
    \/ \E k \in ActionKeys : \E f \in Handlers \cup {"nil"} : RegistActionHandler(k, f)
    \/ FireReady
    \/ \E x \in FrameNames : TransportDeliver(x)
    \/ TransportClose
    \/ LoopAwake
    \/ LoopStop
    \/ LoopRecv
    \/ LoopClosed
    \/ \E d \in Deliveries : HandleMsgBegin(d)
    \/ \E d \in Deliveries : \E k \in ActionKeys : \E f \in Handlers :
           RegistDuringLookup(d, k, f)
    \/ \E d \in Deliveries : \E ret \in HandlerRets : HandlerReturn(d, ret)

Spec == Init /\ [][Next]_vars

\* the frames delivered where only the progress of the loop is in question:
\* one that reaches a handler, one that Decode rejects, one that panics
LoopFrames == {"ok", "short", "overflow"}

\* the consuming side of a wrapper opened for consuming
LoopNext ==
    \/ \E wid \in WrapperIds : \E warn \in BOOLEAN :
           \E fp \in FailPoints(FullConf(FALSE, TRUE, warn)) :
               Open(wid, FullConf(FALSE, TRUE, warn), fp)
    \/ Close
    \/ \E k \in ActionKeys : \E f \in Handlers \cup {"nil"} : RegistActionHandler(k, f)
    \/ FireReady
    \/ \E x \in LoopFrames : TransportDeliver(x)
    \/ TransportClose
    \/ LoopAwake
    \/ LoopStop
    \/ LoopRecv
    \/ LoopClosed
    \/ \E d \in Deliveries : HandleMsgBegin(d)
    \/ \E d \in Deliveries : \E k \in ActionKeys : \E f \in Handlers :
           RegistDuringLookup(d, k, f)
    \/ \E d \in Deliveries : \E ret \in HandlerRets : HandlerReturn(d, ret)

LoopSpec == Init /\ [][LoopNext]_vars

\* the Go scheduler runs the loop goroutine whenever it can take a step: its
\* receive from conf.Ready once that is readable, and its select once one of
\* the cases is ready (which ready case is taken is not determined)
LoopFairSpec ==
    /\ LoopSpec
    /\ WF_vars(LoopAwake)
    /\ WF_vars(LoopStop \/ LoopRecv \/ LoopClosed)

\* the producing side: the application opens, signals readiness, posts and
\* closes; the transport delivers nothing
PostNext ==
    \/ \E wid \in WrapperIds : \E c \in ProducerConfigs : \E fp \in FailPoints(c) :
           Open(wid, c, fp)
    \/ Close
    \/ FireReady
    \/ LoopAwake
    \/ LoopStop
    \/ \E a \in ActionKeys : \E msg \in PostMsgs : \E r \in Retries : PostCall(a, msg, r)
    \/ PostAwake
    \/ PostEncode
    \/ \E ok \in BOOLEAN : PostPublish(ok)
    \/ PostSleep

PostSpec == Init /\ [][PostNext]_vars

\* the goroutine calling Post is scheduled once its receive from conf.Ready
\* can complete
PostFairSpec == PostSpec /\ WF_vars(PostAwake)

CodecNext ==
    \/ \E a \in CodecActions : \E p \in Payloads : CodecEncode(a, p)
    \/ CodecDecode
    \/ \E b \in RawFrames : CodecDecodeRaw(b)

CodecSpec == Init /\ [][CodecNext]_vars

\* the most bytes one chunk stands for: 2^31 - 1
ChunkMax == PieceLen + (PieceLen - 1)

\* the longest incompressible payload whose gzip stream fits a frame: the
\* stream adds 20 bytes and 5 bytes to each of its 80 stored blocks
FitLen == maxSegmentLen - 12 - (10 + 2 + 8) - 5 * 80

\* payloads of 2 GiB and more: incompressible ones of 2^32 - 2 bytes and of
\* 6000000 bytes more, and runs of one byte and of two
GiantPayloads ==
    { << Rnd(0, ChunkMax), Rnd(1, ChunkMax) >>,
      << Rnd(0, ChunkMax), Rnd(1, ChunkMax), Rnd(2, 6000000) >>,
      << Rep(0, ChunkMax) >>,
      << Rep(0, ChunkMax), Rep(255, ChunkMax) >> }

\* message bodies given to Encode where the length limit is in question
LimitPayloads ==
    { << >>, << Rep(0, 1) >> }
        \cup { << Rnd(0, n) >> : n \in Near(FitLen) }
        \cup { << Rep(0, n) >> : n \in Near(maxSegmentLen - 12) }
        \cup GiantPayloads

LimitNext ==
    \/ \E a \in CodecActions : \E p \in LimitPayloads : CodecEncode(a, p)
    \/ CodecDecode

LimitSpec == Init /\ [][LimitNext]_vars

\* frames of fewer than 12 bytes
ShortFrames ==
    { << >> }
        \cup { << Rep(x, n) >> : x \in {magicN, 0}, n \in 1 .. 11 }
        \cup { BSlice(RawFrame(0, 1, U32OfNat(0), 0), 0, n) : n \in 1 .. 11 }

\* well-formed frames of every allowed size
SoundFrames ==
    { RawFrame(opt, a, U32OfNat(n), n) : opt \in {0, 128}, a \in {1, -1},
                                         n \in RawBodyLens }

\* frames of an allowed size whose first byte is not the magic byte
BadMagicFrames ==
    { WithFirstByte(f, x) : f \in SoundFrames, x \in {0, magicN - 1, magicN + 1, 255} }

\* frames longer than maxSegmentLen
LongFrames ==
    { << Rep(x, maxSegmentLen + k) >> : x \in {magicN, 0}, k \in 1 .. (1 + Slack) }
        \cup { RawFrame(0, 1, U32OfNat(maxSegmentLen - 12 + k), maxSegmentLen - 12 + k) :
                   k \in 1 .. (1 + Slack) }

\* frames of 2^32 + 12 + n bytes whose header declares n payload bytes
GiantFrames ==
    { BCat(FromSeq(<< x, opt, 0, 0 >> \o PutUint32(U32OfInt32(1))
                                     \o PutUint32(U32OfNat(n))),
           << Rep(9, ChunkMax), Rep(8, ChunkMax), Rep(9, 2 + n) >>) :
         x \in {magicN, 0}, opt \in {0, 128}, n \in 0 .. MaxSmall }

\* the malformed frames handed to Decode
MalformedFrames == ShortFrames \cup BadMagicFrames \cup LongFrames \cup GiantFrames

MalformedNext == \E b \in MalformedFrames : CodecDecodeRaw(b)

MalformedSpec == Init /\ [][MalformedNext]_vars

\* every configuration as far as validation tells them apart: each string
\* empty or not, each flag on or off
AllConfigs ==
    { Conf(rdy, url, ep, pex, pkind, pq, prk, ec, cex, ckind, cq, crk, TRUE) :
        rdy \in BOOLEAN, url \in {"", "amqp://mq"},
        ep \in BOOLEAN, pex \in {"", "ex"}, pkind \in {"", "direct"},
        pq \in {"", "q"}, prk \in {"", "rk"},
        ec \in BOOLEAN, cex \in {"", "ex"}, ckind \in {"", "direct"},
        cq \in {"", "q"}, crk \in {"", "rk"} }

\* Open with any configuration, and Close
ConfigNext ==
    \/ \E wid \in WrapperIds : \E c \in AllConfigs : \E fp \in FailPoints(c) :
           Open(wid, c, fp)
    \/ Close

ConfigSpec == Init /\ [][ConfigNext]_vars

CipherNext ==
    \/ \E key \in CipherKeys : \E text \in CipherTexts : \E t \in CipherTypes :
           \E iv \in IVs : CipherEncrypt(key, text, t, iv)
    \/ CipherDecrypt

CipherSpec == Init /\ [][CipherNext]_vars

DecryptNext ==
    \E key \in CipherKeys : \E b \in MalformedContents : CipherDecryptRaw(key, b)

DecryptSpec == Init /\ [][DecryptNext]_vars

MakeKeyNext ==
    \/ \E key \in MakeKeyKeys : \E size \in MakeKeySizes : MakeKeyCall(key, size)
    \/ MakeKeyEnter
    \/ MakeKeyAppend
    \/ MakeKeyReturn

MakeKeySpec == Init /\ [][MakeKeyNext]_vars

\* the goroutine that called makeKey keeps running
MakeKeyFairSpec == MakeKeySpec /\ WF_vars(MakeKeyEnter \/ MakeKeyAppend \/ MakeKeyReturn)

HTTPNext ==
    \/ \E rp \in Responses : \E hasJSON \in BOOLEAN : \E hasBytes \in BOOLEAN :
          \E json \in CallerStructs : \E bytes \in CallerBuffers :
             HTTPSend(rp, hasJSON, json, hasBytes, bytes)
    \/ HTTPReturn

HTTPSpec == Init /\ [][HTTPNext]_vars

\* a wrapper opened with the consumer role, its dispatch loop, and the
\* goroutines that call Close on it
ConcurrentCloseNext ==
    \/ \E wid \in WrapperIds : \E ep \in BOOLEAN : \E warn \in BOOLEAN :
           \E fp \in FailPoints(FullConf(ep, TRUE, warn)) :
               Open(wid, FullConf(ep, TRUE, warn), fp)
    \/ FireReady
    \/ \E c \in CloseCallers : CloseEnter(c)
    \/ \E c \in CloseCallers : CloseDefault(c)
    \/ \E x \in LoopFrames : TransportDeliver(x)
    \/ LoopAwake
    \/ LoopStop
    \/ LoopRecv

ConcurrentCloseSpec == Init /\ [][ConcurrentCloseNext]_vars

\* the registry alone: the application registers and looks up
RegistryNext ==
    \/ \E k \in RegistryKeys : \E f \in Handlers \cup {"nil"} : RegistryRegist(k, f)
    \/ \E k \in RegistryKeys : RegistryFind(k)

RegistrySpec == Init /\ [][RegistryNext]_vars

\* the frames delivered and the Post arguments where only the registry is in
\* question
WrapperFrames == {"ok", "short"}
WrapperRetries == {-1, 1}

\* no delivery is on the channel or with a handleMsg goroutine
Quiet == \A d \in Deliveries : tasks[d].pc \in {"none", "done"}

\* every operation of a wrapper opened for both roles, dispatch included; the
\* transport delivers a frame once the one before it is dealt with
WrapperNext ==
    \/ \E wid \in WrapperIds : \E warn \in BOOLEAN :
           \E fp \in FailPoints(FullConf(TRUE, TRUE, warn)) :
               Open(wid, FullConf(TRUE, TRUE, warn), fp)
    \/ Close
    \/ \E k \in ActionKeys : \E f \in Handlers \cup {"nil"} : RegistActionHandler(k, f)
    \/ \E e \in Encoders \cup {"nil"} : SetEncoder(e)
    \/ FireReady
    \/ \E a \in ActionKeys : \E r \in WrapperRetries : PostCall(a, MsgHi, r)
    \/ PostAwake
    \/ PostEncode
    \/ \E ok \in BOOLEAN : PostPublish(ok)
    \/ PostSleep
    \/ \E x \in WrapperFrames : Quiet /\ TransportDeliver(x)
    \/ TransportClose
    \/ LoopAwake
    \/ LoopStop
    \/ LoopRecv
    \/ LoopClosed
    \/ \E d \in Deliveries : HandleMsgBegin(d)
    \/ \E d \in Deliveries : \E k \in ActionKeys : \E f \in Handlers :
           RegistDuringLookup(d, k, f)
    \/ \E d \in Deliveries : \E ret \in HandlerRets : HandlerReturn(d, ret)

WrapperSpec == Init /\ [][WrapperNext]_vars

\* ------------------------------------------------------------------------
\* Claims about the codec, under CodecSpec

\* the framed size of msgBody after the optional compression
FramedLen(msgBody) ==
    12 + BLen(IF BLen(msgBody) > 51200 THEN Compress(msgBody).out ELSE msgBody)

\* C1: round trip.  For every int32 action identifier and every payload
\* whose framed size after the optional compression is at most the maximum
\* segment length, Encode succeeds, and Decode of the frame Encode produced
\* succeeds and returns the original action identifier and payload bytes.
C1_RoundTrip ==
    /\ (cpc \in {"encoded", "decoded"} /\ FramedLen(cin.msg) <= maxSegmentLen)
          => cenc.err = "nil"
    /\ cpc = "decoded"
          => /\ cdec.err = "nil"
             /\ cdec.action = cin.action
             /\ cdec.msgBody = cin.msg

\* a negative action identifier and a compressed payload went through Encode
\* and Decode unchanged
C1_Witness ==
    /\ cpc = "decoded"
    /\ cin.action < 0
    /\ BLen(cin.msg) > 51200
    /\ BLen(cenc.buf) < BLen(cin.msg)
    /\ cdec.err = "nil"
    /\ cdec.msgBody = cin.msg

\* the declared payload length of a frame of at least 12 bytes
DeclaredLen(b) == Uint32(BAt(b, 8), BAt(b, 9), BAt(b, 10), BAt(b, 11))

\* 12 + declaredLength > len(b), in unbounded arithmetic
DeclaredExceeds(b) ==
    \/ DeclaredLen(b).hi >= 32768
    \/ NatOfU32(DeclaredLen(b)) > BLen(b) - 12

\* C2: for every frame of length 12 .. maxSegmentLen with the right magic
\* byte and every declared payload length 0 .. 2^32-1, Decode returns the
\* "too short" error when 12 + declaredLength exceeds the frame length, and
\* it never panics.
C2_DeclaredLengthChecked ==
    (/\ cpc = "decodedRaw"
     /\ BLen(cin.frame) >= 12
     /\ BLen(cin.frame) <= maxSegmentLen
     /\ BAt(cin.frame, 0) = magicN)
        => /\ DeclaredExceeds(cin.frame) => cdec.err = "msg too short"
           /\ cdec.err # "panic: slice bounds out of range"

\* ------------------------------------------------------------------------
\* Claims about Post, under PostSpec

\* every Publish call so far failed
AllFailed(log) == \A i \in 1..Len(log) : log[i] = "failed"

\* the warnings a configured sink has received after k failed attempts
WarnCount(c, k) == IF c.Warn THEN k ELSE 0

\* C3: publish retry, success.  When the transport fails the first k attempts
\* and accepts attempt k+1, 0 <= k <= retries, Post makes no attempt after
\* the accepted one, has not given up before it, returns nil, and has emitted
\* exactly k warnings to a configured sink.
C3_RetrySuccess ==
    /\ \A i \in 1..(Len(post.log) - 1) : post.log[i] = "failed"
    /\ (post.log # << >> /\ post.log[Len(post.log)] = "ok")
          => /\ post.pc = "done"
             /\ post.ret = Nil
             /\ Len(post.log) - 1 <= post.retry
             /\ post.warns = WarnCount(conf, Len(post.log) - 1)
    /\ (post.pc = "done" /\ post.encoded /\ AllFailed(post.log))
          => Len(post.log) > post.retry

\* Post returned nil on the last allowed attempt after two or more failures,
\* with a warning sink configured
C3_Witness ==
    /\ post.pc = "done"
    /\ post.ret = Nil
    /\ Len(post.log) >= 3
    /\ Len(post.log) = post.retry + 1
    /\ post.log[Len(post.log)] = "ok"
    /\ conf.Warn
    /\ post.warns = Len(post.log) - 1

\* C4: publish retry, exhaustion.  When every publish attempt fails, Post
\* makes exactly retries+1 attempts and then returns the error of the last
\* attempt, not nil and not the error of an earlier attempt.
C4_RetryExhausted ==
    (post.pc = "done" /\ post.encoded /\ AllFailed(post.log))
        => /\ Len(post.log) = post.retry + 1
           /\ post.log # << >> => post.ret = Err("publish", Len(post.log))

\* Post returned the error of its third attempt after three failures
C4_Witness ==
    /\ post.pc = "done"
    /\ post.retry >= 2
    /\ Len(post.log) = post.retry + 1
    /\ AllFailed(post.log)
    /\ post.ret = Err("publish", post.retry + 1)

\* C10: on a producer-enabled wrapper Post neither encodes nor publishes
\* before the readiness signal has fired, and a Post waiting for readiness
\* proceeds once it has fired.
C10_PostGated ==
    /\ [](~ready => (~post.encoded /\ post.log = << >>))
    /\ ((post.pc = "waitReady" /\ ready) ~> (post.pc # "waitReady"))

\* a Post called before readiness has published after readiness fired
C10_Witness ==
    /\ post.early
    /\ ready
    /\ post.encoded
    /\ post.log # << >>

\* ------------------------------------------------------------------------
\* Dispatch

\* how often x occurs in the sequence q
Count(q, x) == Cardinality({i \in 1..Len(q) : q[i] = x})

\* the index of the first x in q, 0 when absent
IndexOf(q, x) ==
    IF Count(q, x) = 0 THEN 0
    ELSE CHOOSE i \in 1..Len(q) : q[i] = x /\ \A j \in 1..(i - 1) : q[j] # x

\* delivery d has been received from the channel by the loop
Dequeued(d) == tasks[d].pc \in {"spawned", "handler", "done"}

\* the goroutine of delivery d has found a handler and called it
HandlerCalled(d) == tasks[d].pc \in {"handler", "done"} /\ tasks[d].h # "nil"

\* in this step the goroutine of delivery d runs handleMsg from its start
Begins(d) == tasks[d].pc = "spawned" /\ tasks'[d].pc # "spawned"

\* in this step the handler called for delivery d returns
Returns(d) == tasks[d].pc = "handler" /\ tasks'[d].pc # "handler"

\* the frame of delivery d was framed by a peer's Encode
SentOk(d) == Sent(tasks[d].in).kind = "ok"

\* the frames on which Decode returns an error
ErrorFrames == {"bad magic", "short", "truncated", "oversize", "bad gzip"}

\* the step leaves the loop, the channel and the wrapper as they are and
\* ends in no panic
LoopUntouched ==
    /\ lpc' = lpc
    /\ delivery' = delivery
    /\ panicked' = "none"
    /\ UNCHANGED << wvars, handlers, ready >>

\* C5 as stated: whenever the handler called for a delivery has returned,
\* the delivery was acknowledged before that return.
C5_AckBeforeHandlerReturns ==
    \A d \in Deliveries :
        (HandlerCalled(d) /\ Count(tasks[d].log, "return") > 0)
            => /\ Count(tasks[d].log, "ack") > 0
               /\ IndexOf(tasks[d].log, "ack") < IndexOf(tasks[d].log, "return")

\* C5: a delivery whose handler was called is unacknowledged for as long as
\* the handler runs, and is acknowledged once, after the handler returned,
\* by the goroutine that called the handler.
C5_AckAfterHandlerReturns ==
    \A d \in Deliveries :
        HandlerCalled(d) =>
            /\ tasks[d].pc = "handler" =>
                   /\ tasks[d].log = << "call" >>
                   /\ Count(ackLog, d) = 0
            /\ tasks[d].pc = "done" =>
                   /\ tasks[d].log = << "call", "return", "ack" >>
                   /\ Count(ackLog, d) = 1

\* a handler has returned and its delivery was acknowledged after that
C5_Witness ==
    \E d \in Deliveries :
        /\ HandlerCalled(d)
        /\ tasks[d].pc = "done"
        /\ IndexOf(tasks[d].log, "return") > 0
        /\ IndexOf(tasks[d].log, "ack") > IndexOf(tasks[d].log, "return")

C7_NoHandlerAcked ==
    /\ [][\A d \in Deliveries :
             (Begins(d) /\ SentOk(d)
                 /\ Sent(tasks[d].in).action \notin DOMAIN handlers)
                 => /\ tasks'[d].pc = "done"
                    /\ tasks'[d].h = "nil"
                    /\ tasks'[d].log = WarnEvents(conf) \o << "ack" >>
                    /\ ackLog' = Append(ackLog, d)
                    /\ LoopUntouched]_vars
    /\ [](\A d \in Deliveries :
             (tasks[d].pc = "done" /\ SentOk(d) /\ tasks[d].h = "nil")
                 => /\ Count(ackLog, d) = 1
                    /\ Count(tasks[d].log, "warn") = (IF conf.Warn THEN 1 ELSE 0)
                    /\ Count(tasks[d].log, "call") = 0)

\* a decodable frame without handler was acknowledged with one warning, and
\* the loop went on to dequeue the next delivery
C7_Witness ==
    \E d \in Deliveries :
        /\ tasks[d].pc = "done" /\ SentOk(d) /\ tasks[d].h = "nil"
        /\ conf.Warn
        /\ tasks[d].log = << "warn", "ack" >>
        /\ \E e \in Deliveries : e > d /\ Dequeued(e)

\* Decode returned an error for the frame of delivery d
DecodeFailed(t) == t.err \notin {"none", "nil", "panic: slice bounds out of range"}

\* C8: a goroutine whose Decode returns an error calls no handler, emits a
\* warning when a sink is configured, acknowledges the delivery once and
\* returns, and the loop is untouched; Decode returns an error for a wrong
\* magic byte, a short, a truncated and an oversize frame and for a body that
\* does not decompress.
C8_DecodeErrorAcked ==
    /\ [][\A d \in Deliveries :
             (Begins(d) /\ DecodeFailed(tasks'[d]))
                 => /\ tasks'[d].pc = "done"
                    /\ tasks'[d].h = "nil"
                    /\ tasks'[d].log = WarnEvents(conf) \o << "ack" >>
                    /\ ackLog' = Append(ackLog, d)
                    /\ LoopUntouched]_vars
    /\ [](\A d \in Deliveries :
             /\ (tasks[d].pc \in {"handler", "done"} /\ tasks[d].in \in ErrorFrames)
                    => DecodeFailed(tasks[d])
             /\ (tasks[d].pc = "done" /\ DecodeFailed(tasks[d]))
                    => /\ Count(ackLog, d) = 1
                       /\ tasks[d].h = "nil"
                       /\ Count(tasks[d].log, "call") = 0)

\* an undecodable frame was acknowledged with a warning, and a later
\* delivery was then dispatched to its handler and acknowledged
C8_Witness ==
    \E d, e \in Deliveries :
        /\ d < e
        /\ tasks[d].pc = "done" /\ tasks[d].in \in ErrorFrames /\ DecodeFailed(tasks[d])
        /\ conf.Warn
        /\ tasks[d].log = << "warn", "ack" >>
        /\ tasks[e].pc = "done" /\ HandlerCalled(e)
        /\ IndexOf(ackLog, d) < IndexOf(ackLog, e)

\* C9: a goroutine given a decodable frame whose action has a registered
\* handler calls that handler once with the action and payload the peer
\* framed; when the handler returns, nil or an error, the delivery is
\* acknowledged once, no warning is emitted and nothing else changes.
C9_HandlerInvokedOnce ==
    /\ [][\A d \in Deliveries :
             /\ (Begins(d) /\ SentOk(d)
                    /\ Sent(tasks[d].in).action \in DOMAIN handlers)
                    => /\ tasks'[d].pc = "handler"
                       /\ tasks'[d].h = handlers[Sent(tasks[d].in).action]
                       /\ tasks'[d].action = Sent(tasks[d].in).action
                       /\ tasks'[d].msg = Sent(tasks[d].in).msg
                       /\ tasks'[d].log = << "call" >>
                       /\ ackLog' = ackLog
                       /\ LoopUntouched
             /\ Returns(d)
                    => /\ tasks'[d].pc = "done"
                       /\ tasks'[d].ret \in HandlerRets
                       /\ ackLog' = Append(ackLog, d)
                       /\ \A e \in Deliveries \ {d} : tasks'[e] = tasks[e]
                       /\ LoopUntouched]_vars
    /\ [](\A d \in Deliveries :
             (tasks[d].pc = "done" /\ HandlerCalled(d))
                 => /\ Count(tasks[d].log, "call") = 1
                    /\ Count(tasks[d].log, "ack") = 1
                    /\ Count(tasks[d].log, "warn") = 0
                    /\ Count(ackLog, d) = 1
                    /\ tasks[d].ret \in HandlerRets)

\* a handler was called with a decompressed payload and returned an error,
\* another returned nil, and both deliveries were acknowledged
C9_Witness ==
    \E d, e \in Deliveries :
        /\ tasks[d].pc = "done" /\ HandlerCalled(d) /\ tasks[d].ret = "error"
        /\ tasks[d].msg = MsgBig
        /\ tasks[e].pc = "done" /\ HandlerCalled(e) /\ tasks[e].ret = "nil"
        /\ Count(ackLog, d) = 1 /\ Count(ackLog, e) = 1

\* ------------------------------------------------------------------------
\* Readiness gate of the loop

\* delivery d was sent by the transport and is still in the channel buffer
OnChannel(d) == tasks[d].pc = "chan"

\* C11: while the readiness signal has not fired the loop has not left its
\* receive from conf.Ready, every delivery the transport made is still on
\* the channel in arrival order, and nothing is acknowledged; once readiness
\* has fired, a delivery on the channel is dequeued and handed to its
\* handleMsg goroutine unless the stop signal is closed or the process has
\* panicked.
C11_LoopGated ==
    /\ [](~ready =>
             /\ lpc \in {"none", "waitReady"}
             /\ \A d \in Deliveries : tasks[d].pc \in {"none", "chan"}
             /\ delivery = [i \in 1..Delivered |-> i]
             /\ ackLog = << >>)
    /\ \A d \in Deliveries :
           (OnChannel(d) /\ ready)
               ~> (Dequeued(d) \/ stopConsumeCh = "closed" \/ panicked # "none")

\* the loop has started and waits for readiness while two deliveries the
\* transport made sit on the channel
C11_Witness ==
    /\ ~ready
    /\ lpc = "waitReady"
    /\ Len(delivery) >= 2
    /\ \A d \in 1..2 : OnChannel(d)

\* ------------------------------------------------------------------------
\* Close

\* this step changes what Close changes and is not Open's return
CloseStep == openRet' = openRet /\ (m' # m \/ stopConsumeCh' # stopConsumeCh)

\* C12: in every reachable state a Close neither panics nor reopens
\* anything: it leaves the transport closed (when there is one) and the stop
\* signal closed (when it was created), and a further Close finds nothing to
\* change; a step that closes the transport or the stop signal changes
\* nothing else and the stop signal goes from open to closed once.
C12_CloseIdempotent ==
    /\ [](panicked = "none" =>
             /\ CloseStop(stopConsumeCh) # "panic"
             /\ CloseStop(stopConsumeCh) = (IF stopConsumeCh = "nil" THEN "nil" ELSE "closed")
             /\ CloseM(m) = (IF m = "nil" THEN "nil" ELSE "closed")
             /\ CloseStop(CloseStop(stopConsumeCh)) = CloseStop(stopConsumeCh)
             /\ CloseM(CloseM(m)) = CloseM(m))
    /\ [][CloseStep =>
             /\ m' = CloseM(m)
             /\ stopConsumeCh' = CloseStop(stopConsumeCh)
             /\ stopConsumeCh' # stopConsumeCh => (stopConsumeCh = "open" /\ stopConsumeCh' = "closed")
             /\ UNCHANGED << ready, id, conf, producer, consumer, delivery, deliveryState,
                             handlers, openRet, lpc, tasks, ackLog, panicked, post >>]_vars
    /\ [][stopConsumeCh = "closed" => stopConsumeCh' = "closed"]_vars

\* Close has closed the transport and the stop signal of an opened consumer,
\* and nothing has panicked
C12_Witness ==
    /\ openRet = "nil"
    /\ m = "closed"
    /\ stopConsumeCh = "closed"
    /\ panicked = "none"
    /\ CloseStop(stopConsumeCh) = stopConsumeCh

\* ------------------------------------------------------------------------
\* Open

\* the errors Open returns after the transport connection was established
SessionErrors == {"producer", "producerOpen", "consumer", "consumerOpen"}

\* C13: when Open has returned the error of a producer or consumer session
\* step, the transport connection is closed, the stop signal is closed if it
\* was created (it was when the consumer session failed to open), no
\* consumer is set, no dispatch loop was started and no delivery is made.
C13_NoHalfOpen ==
    openRet \in SessionErrors =>
        /\ m = "closed"
        /\ stopConsumeCh \in {"nil", "closed"}
        /\ openRet = "consumerOpen" => stopConsumeCh = "closed"
        /\ consumer = "nil"
        /\ lpc = "none"
        /\ \A d \in Deliveries : tasks[d].pc = "none"

\* Open failed to open the consumer session after the producer was set up
C13_Witness ==
    /\ openRet = "consumerOpen"
    /\ producer = "set"
    /\ m = "closed"
    /\ stopConsumeCh = "closed"
    /\ lpc = "none"

\* the errors ValidateConf returns for the invalid configurations
ValidationErrors == { ValidateConf(c) : c \in BadConfigs }

\* C14 as stated: an Open that returns a validation error has made no
\* transport connection and leaves the wrapper's identifier, configuration,
\* transport handles, delivery channel and stop signal as they were before
\* the call.
C14_FailedValidationKeepsNothing ==
    [][(openRet = "none" /\ openRet' \in ValidationErrors)
          => UNCHANGED << id, conf, m, producer, consumer, deliveryState,
                          stopConsumeCh >>]_vars

\* ------------------------------------------------------------------------
\* Cancellation

\* C15 as stated: once the stop signal is closed, a dispatch loop that was
\* started terminates, whether or not readiness has fired and whatever is on
\* the channel (a panic ends it with the process).
C15_StopTerminatesLoop ==
    (stopConsumeCh = "closed" /\ lpc # "none") ~> (lpc = "done" \/ panicked # "none")

\* ------------------------------------------------------------------------
\* Handler registry

\* C16 as stated: once Open has returned, no step changes the registry, and
\* so no registry write meets a lookup of a dispatch goroutine.
C16_RegistryFrozenAfterOpen ==
    /\ [][openRet # "none" => handlers' = handlers]_vars
    /\ [](panicked # "concurrent map read and map write")


\* ------------------------------------------------------------------------
\* Claims about the handler registry

\* the registry harness made the call op on this step
RegistryStep(op) == reg'.op = op /\ (reg' # reg \/ handlers' # handlers)

\* C17: RegistActionHandler returns an error exactly when the handler is nil
\* or the key is already registered, and then the registry is as it was, so
\* the first handler stays the one a lookup returns; otherwise it returns nil
\* and a lookup of the key returns the handler given, the other keys being
\* as they were. A lookup returns the registered handler, or nil for a key
\* never registered, and raises nothing.
C17_RegistrationOutcomes ==
    /\ [][RegistryStep("regist") =>
            /\ reg'.ret # "nil" <=> (reg'.f = "nil" \/ reg'.key \in DOMAIN handlers)
            /\ reg'.ret # "nil" =>
                  /\ handlers' = handlers
                  /\ \A k \in RegistryKeys :
                        findHandler(handlers', k) = findHandler(handlers, k)
            /\ reg'.ret = "nil" =>
                  /\ findHandler(handlers', reg'.key) = reg'.f
                  /\ reg'.f # "nil"
                  /\ \A k \in RegistryKeys \ {reg'.key} :
                        findHandler(handlers', k) = findHandler(handlers, k)
            /\ panicked' = "none"]_vars
    /\ [][RegistryStep("find") =>
            /\ handlers' = handlers
            /\ panicked' = "none"
            /\ reg'.key \in DOMAIN handlers => reg'.ret = handlers[reg'.key]
            /\ reg'.key \notin DOMAIN handlers => reg'.ret = "nil"]_vars
    /\ [](\A k \in DOMAIN handlers : handlers[k] \in Handlers)

\* a second registration under a key was refused and the first handler is
\* still the one stored
C17_Witness ==
    /\ reg.op = "regist"
    /\ reg.ret = "had been existed"
    /\ reg.f = "h2"
    /\ findHandler(handlers, reg.key) = "h1"
    /\ \E k \in RegistryKeys : k \notin DOMAIN handlers


\* C18: the registry is append-only: whatever the wrapper does, a key that
\* maps to a handler maps to the same handler in the next state, and so in
\* every later one.
C18_RegistryAppendOnly ==
    [][\A k \in DOMAIN handlers : k \in DOMAIN handlers' /\ handlers'[k] = handlers[k]]_vars

\* a registered handler has outlived a refused registration, a Post, a
\* dispatch and a Close
C18_Witness ==
    /\ findHandler(handlers, 1) = "h1"
    /\ post.pc = "done"
    /\ \E d \in Deliveries : tasks[d].pc = "done" /\ tasks[d].h = "h1"
    /\ m = "closed"


\* ------------------------------------------------------------------------
\* Claims about the limits of the codec, under CodecSpec

\* the frame given to Decode in the codec harness
DecodedFrame == IF cpc = "decoded" THEN cenc.buf ELSE cin.frame

\* the payload bytes of frame b, after its 12 header bytes
FramePayload(b) == BSlice(b, 12, BLen(b))

\* the bytes of frame b that its header declares as the payload
DeclaredPayload(b) == BSlice(b, 12, NatOfU32(BodyEnd(12, DeclaredLen(b))))

\* C19: the compression threshold is strict.  A frame Encode produces has
\* the compression flag set and carries the gzip of the payload if and only
\* if the payload is longer than 51200 bytes; otherwise the flag is clear and
\* the frame carries the payload itself, so at exactly 51200 bytes.  Decode
\* returns the inflated payload when the flag is set and the payload bytes
\* as they are when it is clear.
C19_CompressionThreshold ==
    /\ (cpc \in {"encoded", "decoded"} /\ cenc.err = "nil")
          => /\ BAt(cenc.buf, 1) = (IF BLen(cin.msg) > 51200 THEN 128 ELSE 0)
             /\ BLen(cin.msg) > 51200
                   => FramePayload(cenc.buf) = Compress(cin.msg).out
             /\ BLen(cin.msg) <= 51200 => FramePayload(cenc.buf) = cin.msg
             /\ BLen(cin.msg) = 51200 => BLen(cenc.buf) = 12 + 51200
    /\ (cpc \in {"encoded", "decoded"} /\ BLen(cin.msg) <= 51200) => cenc.err = "nil"
    /\ (cpc \in {"decoded", "decodedRaw"}
           /\ cdec.err \in {"nil", "Decompress msg body failed"})
          => LET b == DecodedFrame
                 flag == BAt(b, 1) \div 128 % 2 = 1
                 inflated == Decompress(DeclaredPayload(b))
             IN  /\ ~flag => cdec.err = "nil" /\ cdec.msgBody = DeclaredPayload(b)
                 /\ flag => IF inflated.err = "nil"
                            THEN cdec.err = "nil" /\ cdec.msgBody = inflated.out
                            ELSE cdec.err = "Decompress msg body failed"

\* a payload of exactly 51200 bytes went through Encode uncompressed and
\* came back from Decode
C19_Witness ==
    /\ cpc = "decoded"
    /\ BLen(cin.msg) = 51200
    /\ BAt(cenc.buf, 1) = 0
    /\ BLen(cenc.buf) = 51212
    /\ cdec.err = "nil"
    /\ cdec.msgBody = cin.msg


\* the framed size of msgBody after the optional compression, as a Go int
IntFramedLen(msgBody) ==
    IntAdd(IntOfNat(12),
           IntLen(IF IntGt(IntLen(msgBody), IntOfNat(51200))
                  THEN Compress(msgBody).out ELSE msgBody))

\* C20: Encode returns the "too long" error and no frame if and only if 12
\* plus the length of the payload, compressed when it is, exceeds
\* maxSegmentLen; a framed size equal to it is accepted; and every frame
\* Encode produces has a length that Decode accepts.
C20_OversizeRejected ==
    /\ cpc \in {"encoded", "decoded"}
          => /\ cenc.err = "msg too long"
                   <=> IntGt(IntFramedLen(cin.msg), IntOfNat(maxSegmentLen))
             /\ cenc.err = "msg too long" => cenc.buf = << >>
             /\ cenc.err = "nil"
                   => /\ IntLen(cenc.buf) = IntFramedLen(cin.msg)
                      /\ ~IntGt(IntLen(cenc.buf), IntOfNat(maxSegmentLen))
                      /\ ~IntGt(IntOfNat(12), IntLen(cenc.buf))
    /\ cpc = "decoded" => cdec.err \notin {"msg is too long", "msg too short"}


\* ------------------------------------------------------------------------
\* Claims about the frames Decode rejects, under MalformedSpec

\* C21: Decode returns the "too long" error for a frame longer than
\* maxSegmentLen, the "too short" error for a frame of fewer than 12 bytes,
\* the empty one included, and the magic-mismatch error for a frame of an
\* allowed length whose first byte is not the magic byte, whatever the rest
\* of the frame is; in each case it returns no message.
C21_MalformedRejected ==
    cpc = "decodedRaw"
        => LET b == cin.frame
               long == IntGt(IntLen(b), IntOfNat(maxSegmentLen))
               short == IntGt(IntOfNat(12), IntLen(b))
           IN  /\ long => cdec.err = "msg is too long"
               /\ short => cdec.err = "msg too short"
               /\ (~long /\ ~short /\ BAt(b, 0) # magicN)
                     => cdec.err = "bad msg format, magicN didn't match"
               /\ (long \/ short \/ BAt(b, 0) # magicN)
                     => cdec.action = 0 /\ cdec.msgBody = << >>


\* ------------------------------------------------------------------------
\* Claims about the configuration, under ConfigSpec

\* a field of an enabled role is empty
RoleIncomplete(enabled, exchange, kind, queue, routeKey) ==
    enabled /\ (exchange = "" \/ kind = "" \/ queue = "" \/ routeKey = "")

\* what the specification calls an invalid configuration
Invalid(c) ==
    \/ ~c.Ready
    \/ c.MQUrl = ""
    \/ RoleIncomplete(c.EnableProducer, c.ProducerExchange, c.ProducerExchangeKind,
                      c.ProducerQueue, c.ProducerRouteKey)
    \/ RoleIncomplete(c.EnableConsumer, c.ConsumerExchange, c.ConsumerExchangeKind,
                      c.ConsumerQueue, c.ConsumerRouteKey)

\* the errors of Open that come from the transport
TransportErrors == {"connect"} \cup SessionErrors

\* C22: ValidateConf fails exactly for the configurations without a
\* readiness gate, without a broker URL, or with an enabled role one of
\* whose exchange, exchange kind, queue and route key is empty; Open called
\* with such a configuration returns the validation error and connects
\* nothing; the fields of a disabled role do not matter, and with every
\* other configuration Open fails only if the transport does.
C22_ValidationOutcome ==
    openRet # "none"
        => /\ Invalid(conf) <=> openRet \notin {"nil"} \cup TransportErrors
           /\ Invalid(conf) <=> ValidateConf(conf) # "nil"
           /\ Invalid(conf) => /\ openRet = ValidateConf(conf)
                               /\ m = "nil" /\ producer = "nil" /\ consumer = "nil"

\* Open succeeded with both roles disabled and their fields left empty
C22_Witness ==
    /\ openRet = "nil"
    /\ m = "open"
    /\ ~conf.EnableProducer /\ ~conf.EnableConsumer
    /\ conf.ProducerExchange = "" /\ conf.ProducerQueue = ""
    /\ conf.ConsumerExchangeKind = "" /\ conf.ConsumerRouteKey = ""


\* ------------------------------------------------------------------------
\* Claims about the loop and the handlers, under LoopFairSpec

\* the handler called for delivery e has not returned
InHandler(e) == tasks[e].pc = "handler"

\* C23: a handler that does not return does not hold the loop up.  While
\* the handler of one delivery is running and another delivery is the next
\* on the channel, the loop at its select can receive it; and a delivery on
\* the channel of a ready wrapper is dequeued and handed to a goroutine of
\* its own, whether or not that handler ever returns, unless the stop signal
\* is closed or the process has panicked.
C23_StuckHandlerNoBlock ==
    /\ [](\A e \in Deliveries :
             (InHandler(e) /\ lpc = "select" /\ delivery # << >> /\ panicked = "none")
                 => ENABLED LoopRecv)
    /\ \A e \in Deliveries : \A d \in Deliveries \ {e} :
           (InHandler(e) /\ OnChannel(d) /\ ready)
               ~> (Dequeued(d) \/ stopConsumeCh = "closed" \/ panicked # "none")
    /\ [][\A d \in Deliveries : (OnChannel(d) /\ Dequeued(d)')
             => tasks'[d].pc = "spawned"]_vars

\* the later delivery was dispatched and its handler called while the
\* handler of the first is still running
C23_Witness ==
    /\ InHandler(1)
    /\ InHandler(2)
    /\ tasks[1].ret = "none"
    /\ delivery = << >>
    /\ stopConsumeCh = "open"


\* ------------------------------------------------------------------------
\* Claims about the layout of a frame, under LimitSpec

\* the two 16-bit halves of the 32-bit two's complement of the int32 a
ActionHalves(a) ==
    IF a >= 0 THEN [hi |-> a \div 65536, lo |-> a % 65536]
    ELSE [hi |-> 65535 - ((-(a + 1)) \div 65536), lo |-> 65535 - ((-(a + 1)) % 65536)]

\* C24: a frame Encode produces is 12 bytes longer than the payload it
\* carries (the gzip stream of the message above 51200 bytes, the message
\* itself otherwise); byte 0 is 0x22, byte 1 is 0x80 for a compressed payload
\* and 0 otherwise, bytes 2 and 3 are 0, bytes 4..7 are the action identifier
\* and bytes 8..11 the length of the carried payload, both big-endian, and
\* the payload follows from offset 12.
C24_FrameLayout ==
    (cpc \in {"encoded", "decoded"} /\ cenc.err = "nil")
        => LET b == cenc.buf
               compressed == IntGt(IntLen(cin.msg), IntOfNat(51200))
               payload == IF compressed THEN Compress(cin.msg).out ELSE cin.msg
               n == IntLen(payload)
           IN  /\ IntLen(b) = IntAdd(IntOfNat(12), n)
               /\ BAt(b, 0) = 34
               /\ BAt(b, 1) = (IF compressed THEN 128 ELSE 0)
               /\ BAt(b, 2) = 0 /\ BAt(b, 3) = 0
               /\ BAt(b, 4) * 256 + BAt(b, 5) = ActionHalves(cin.action).hi
               /\ BAt(b, 6) * 256 + BAt(b, 7) = ActionHalves(cin.action).lo
               /\ BAt(b, 8) * 256 + BAt(b, 9) = n.hi
               /\ BAt(b, 10) * 256 + BAt(b, 11) = n.lo
               /\ b = BCat(BSlice(b, 0, 12), payload)

\* C25: cipher round trip.  For each of the types Encrypt accepts
\* (TypeXORBase64, TypeAES128, TypeAES256), every non-empty key and every
\* plaintext, Encrypt succeeds and ends its output with the type, and Decrypt
\* of that output with the same key succeeds and returns the plaintext.
C25_CipherRoundTrip ==
    crypt.type \in {TypeXORBase64, TypeAES128, TypeAES256} =>
        /\ crypt.pc \in {"encrypted", "decrypted"} =>
              /\ crypt.enc.err = "nil"
              /\ crypt.enc.out[Len(crypt.enc.out)] = crypt.type
        /\ crypt.pc = "decrypted" =>
              /\ crypt.dec.err = "nil"
              /\ crypt.dec.out = crypt.plain


\* C26: HTTP result delivery.  For a request that completes with status 200
\* and a body JSONResult can take: if BytesResult is non-nil the whole body has
\* been written to it, after what it held, and if JSONResult is non-nil the
\* body has been parsed into it; for every combination of the two, both set
\* included.
C26_ResultDelivery ==
    (/\ httpc.pc = "done"
     /\ httpc.rp.err = "nil"
     /\ httpc.rp.StatusCode = 200
     /\ httpc.hasJSON => JSONUnmarshal(httpc.rp.Body, httpc.json0).err = "nil")
    => /\ httpc.ret = "nil"
       /\ httpc.hasBytes =>
             BufferBytes(httpc.bytes) = BufferBytes(httpc.bytes0) \o httpc.rp.Body
       /\ httpc.hasJSON =>
             httpc.json = JSONUnmarshal(httpc.rp.Body, httpc.json0).v


\* the fields of the wrapper, its channels and the position of its dispatch
\* loop
WrapperState ==
    << id, conf, m, producer, consumer, handlers, encoder, delivery, deliveryState,
       stopConsumeCh, lpc, panicked >>

\* C27: a failed Post fails only that call.  No step of Post changes the
\* wrapper's configuration, transport handles, handler registry, encoder,
\* delivery channel or stop signal, nor the position of the dispatch loop; a
\* Post that fails on the disabled producer role or in Encode has made no
\* publish attempt; and after a failed Post another Post can be called.
C27_FailedPostOnlyFailsCall ==
    /\ [][post' # post => UNCHANGED WrapperState]_vars
    /\ [](Failure(post) \in {"disabled", "encode"} => post.log = << >>)
    /\ [](Failure(post) = "publish" => (post.log # << >> /\ AllFailed(post.log)))
    /\ []((Failure(post) # "none" /\ panicked = "none" /\ ~conf.nil
              /\ (conf.EnableProducer => producer = "set"))
             => ENABLED PostCall(1, MsgHi, 0))

\* a Post has returned nil on a publish accepted by the transport, after the
\* Post before it failed all its attempts, with the dispatch loop in its select
C27_Witness ==
    /\ post.prior = "publish"
    /\ post.pc = "done"
    /\ post.ret = Nil
    /\ post.log # << >>
    /\ post.log[Len(post.log)] = "ok"
    /\ lpc = "select"


\* C28: Post returns nil only after a publish attempt has succeeded.  For
\* every value of retries, zero and negative ones included, when Post has
\* returned nil it has made at least one Publish call and the last one it made
\* was accepted.
C28_NilOnlyAfterPublish ==
    (post.pc = "done" /\ post.ret = Nil)
        => /\ post.log # << >>
           /\ post.log[Len(post.log)] = "ok"


\* C29: transport-side shutdown.  When the transport has closed the delivery
\* channel, the dispatch loop returns without closing the channel a second
\* time: no step of the loop, and no other step, ends in the panic of a close
\* of a closed channel.
C29_TransportShutdownClean ==
    (deliveryState = "closed" /\ lpc = "done") => panicked # "close of closed channel"


\* C30: Close under concurrent invocation.  In every interleaving of the
\* Close calls of several goroutines on an opened consumer-enabled wrapper, a
\* caller that found the stop signal open closes it before any other caller
\* does, so the stop signal is closed at most once and no call panics.
C30_ConcurrentCloseSafe ==
    /\ \A c \in CloseCallers : closers[c] = "default" => stopConsumeCh = "open"
    /\ panicked # "close of closed channel"


\* C31: Decrypt is total on malformed input.  For every key and every content
\* (empty, of unknown type, AES content shorter than a block or of the IV
\* alone, AES content whose last decrypted byte is 0 or larger than the
\* decrypted length), Decrypt returns a plaintext or an error and never
\* indexes or slices out of bounds.
C31_DecryptTotal ==
    crypt.pc = "decryptedRaw" =>
        crypt.dec.err \notin {"panic: index out of range", "panic: slice bounds out of range"}


\* C32: key expansion terminates.  For every key, the empty one included, and
\* every size >= 0, makeKey returns, and what it returns is exactly size
\* bytes, the key repeated cyclically.
C32_MakeKeyTerminates ==
    /\ [](mk.pc = "returned" =>
             /\ Len(mk.out) = mk.size
             /\ \A i \in 1..mk.size : mk.out[i] = mk.arg[((i - 1) % Len(mk.arg)) + 1])
    /\ (mk.pc = "loop") ~> (mk.pc = "returned")


=============================================================================
